---- MODULE Spec2Model ----
(***************************************************************************)
(* Model of the AWSCluster reconciler (controllers/awscluster_controller.go) *)
(* and of the instance service (pkg/cloud/services/ec2/instances.go) of    *)
(* cluster-api-provider-aws.                                               *)
(*                                                                         *)
(* One AWSCluster object is reconciled.  The variable awsCluster is the    *)
(* object as the declarative store holds it.  A call of Reconcile takes    *)
(* several steps: it loads the object, reads the owner Cluster, on the     *)
(* create path patches the finalizer, runs the pipeline up to its return   *)
(* statement, and then its two deferred calls patch the store one after    *)
(* the other, request by request, before the call returns.  The Cluster    *)
(* controller and the user may change the stored object between any two of *)
(* these steps, and a patch writes only the fields the call changed.  The  *)
(* cloud services behind the converger interfaces and the store are the    *)
(* environment: what they answer is an input of the step that asks them.   *)
(***************************************************************************)
EXTENDS Naturals, Sequences, FiniteSets

VARIABLES
    awsCluster,   \* the AWSCluster object held by the store
    eventBridge,  \* feature.Gates.Enabled(feature.EventBridgeInstanceState)
    calls,        \* the service calls of the step just taken, in order: [op, ok]
    result,       \* what Reconcile returned in the step just taken: [requeueAfter, err]
    seen,         \* what Reconcile found when it loaded the object in that step
    mem,          \* Reconcile's in-memory copy of the object when it returned
    inflight,     \* the call of Reconcile in progress: how far it is, and the copy it loaded
    request,      \* the machine scope handed to the instance service
    reply         \* what the instance service returned for it

cvars == <<awsCluster, eventBridge, calls, result, seen, mem, inflight>>

rvars == <<request, reply>>

vars ==
    <<awsCluster, eventBridge, calls, result, seen, mem, inflight, request, reply>>

----------------------------------------------------------------------------
(* Bounds and value sets of the environment.                               *)

Kinds == {"network", "securitygroups", "bastion", "events", "loadbalancer", "bucket"}

\* At most this many of the service kinds whose failure ends a pipeline fail in one
\* reconciliation; the event-notification service fails or not besides them.
MaxFailures == 1

FailSets == {f \in SUBSET Kinds : Cardinality(f \ {"events"}) <= MaxFailures}

Zones == {"z1", "z2", "z3"}

\* clusterScope.Subnets(): the subnets of the cluster network, in order.
Subnets ==
    << [id |-> "subnet-1", az |-> "z1", public |-> FALSE],
       [id |-> "subnet-2", az |-> "z2", public |-> TRUE],
       [id |-> "subnet-3", az |-> "z3", public |-> FALSE] >>

NoELB == [dns |-> "", azs |-> <<>>]

\* Status.Network.APIServerELB as the load balancer converger can observe it.
ELBObs ==
    { NoELB,
      [dns |-> "a.elb", azs |-> <<"z1">>],
      [dns |-> "b.elb", azs |-> <<"z2", "z3">>] }

\* clusterScope.APIServerPort()
Ports == {6443, 443}

\* At most this many calls of Reconcile are followed in the runs on which the
\* safety properties are checked.
MaxReconciles == 3

\* What the load balancer can show and the API port in the runs on which the
\* progress properties are checked, where Reconcile is invoked without end.
FairELBObs == {NoELB, [dns |-> "b.elb", azs |-> <<"z2", "z3">>]}

FairPorts == {6443}

\* The service kinds that may fail in those runs, one in a reconciliation.
FairKinds == {"bastion", "loadbalancer", "bucket"}

FairFailSets == {{}} \cup {{k} : k \in FairKinds}

----------------------------------------------------------------------------
(* The object.                                                             *)

\* The condition types reconcileNormal sets (infrav1.*Condition), and the condition
\* of the network converger.
CondTypes ==
    {"NetworkReadyCondition", "ClusterSecurityGroupsReadyCondition",
     "BastionHostReadyCondition", "LoadBalancerReadyCondition", "S3BucketReadyCondition"}

\* An error is the chain of its messages, outermost first; nil is the empty chain.
NoError == <<>>

\* errors.Wrap(err, msg), errors.Wrapf(err, msg, ...)
Wrap(err, msg) == <<msg>> \o err

\* A nil *string of a machine spec.
Nil == "<nil>"

\* AWSMachine.Spec.Subnet.Filters: nil, or a list of filters (which may be empty).
NilFilters == [nil |-> TRUE, list |-> <<>>]

\* No machine scope at hand, and no answer of the instance service yet.
NoRequest ==
    [machineFD |-> Nil, templateFD |-> Nil, subnetID |-> Nil, filters |-> NilFilters,
     external |-> FALSE, subnets |-> <<>>, describeFails |-> FALSE]

NoQuery == <<>>

NoReply == [id |-> "", err |-> NoError, query |-> NoQuery, event |-> "none"]

NoCondition == [status |-> "Absent", reason |-> "", severity |-> "", message |-> NoError]

\* clusterv1.APIEndpoint{}
ZeroEndpoint == [host |-> "", port |-> 0]

NoFailureDomains == [z \in Zones |-> "Absent"]

NewObject ==
    [ exists            |-> TRUE,
      deletionTimestamp |-> FALSE,
      finalizer         |-> FALSE,
      paused            |-> FALSE,
      hasOwner          |-> FALSE,
      endpoint          |-> ZeroEndpoint,
      ready             |-> FALSE,
      elb               |-> NoELB,
      conditions        |-> [t \in CondTypes |-> NoCondition],
      failureDomains    |-> NoFailureDomains ]

\* The object after the store has removed it.
Gone == [NewObject EXCEPT !.exists = FALSE]

\* No call of Reconcile is in progress, and none was counted.
Idle == [phase |-> "idle", obj |-> Gone, n |-> 0, part |-> 1, ok |-> TRUE]

\* MarkFalse that also takes the ready flag off the object.
MarkFalseNotReady(o, t, reason, severity, message) ==
    [o EXCEPT !.ready = FALSE,
              !.conditions[t] =
        [status |-> "False", reason |-> reason, severity |-> severity, message |-> message]]

\* conditions.MarkFalse(obj, type, reason, severity, message)
MarkFalse(o, t, reason, severity, message) ==
    [o EXCEPT !.conditions[t] =
        [status |-> "False", reason |-> reason, severity |-> severity, message |-> message]]

\* conditions.MarkTrue(obj, type)
MarkTrue(o, t) ==
    [o EXCEPT !.conditions[t] =
        [status |-> "True", reason |-> "", severity |-> "", message |-> NoError]]

\* infrautilconditions.ErrorConditionAfterInit(clusterScope.ClusterObj()): Error once
\* the owning Cluster's control plane is initialized, Warning before; the owning
\* Cluster's conditions are not part of this model, so the severity is kept symbolic.
ErrorConditionAfterInit == "ErrorAfterInit"

\* controllerutil.AddFinalizer(awsCluster, infrav1.ClusterFinalizer)
AddFinalizer(o) == [o EXCEPT !.finalizer = TRUE]

\* controllerutil.RemoveFinalizer(clusterScope.AWSCluster, infrav1.ClusterFinalizer)
RemoveFinalizer(o) == [o EXCEPT !.finalizer = FALSE]

\* Subnets.FilterPrivate()
FilterPrivate(subnets) == SelectSeq(subnets, LAMBDA s : ~s.public)

\* az is one of the load balancer's AvailabilityZones (the inner loop, lines 364-369)
InZoneList(az, azs) == \E i \in 1..Len(azs) : azs[i] = az

\* SetFailureDomains, had every private subnet's zone been flagged as control plane.
SetFailureDomainsAllControlPlane(o, subnets) ==
    LET priv == FilterPrivate(subnets)
    IN [o EXCEPT !.failureDomains =
          [z \in Zones |->
              IF \E i \in 1..Len(priv) : priv[i].az = z
                THEN "ControlPlane"
                ELSE o.failureDomains[z]]]

\* clusterScope.SetFailureDomain for every private subnet (the loop, lines 362-374)
SetFailureDomains(o, subnets) ==
    LET priv == FilterPrivate(subnets)
    IN [o EXCEPT !.failureDomains =
          [z \in Zones |->
              IF \E i \in 1..Len(priv) : priv[i].az = z
                THEN IF InZoneList(z, o.elb.azs) THEN "ControlPlane" ELSE "NotControlPlane"
                ELSE o.failureDomains[z]]]

----------------------------------------------------------------------------
(* Service calls.  A call of kind k fails in this reconciliation iff       *)
(* k \in in.fail; the error it returns is identified by the call's name.   *)

KindOf(op) ==
    CASE op \in {"ReconcileNetwork", "DeleteNetwork"} -> "network"
      [] op \in {"ReconcileSecurityGroups", "DeleteSecurityGroups"} -> "securitygroups"
      [] op \in {"ReconcileBastion", "DeleteBastion"} -> "bastion"
      [] op \in {"ReconcileEC2Events", "DeleteEC2Events"} -> "events"
      [] op \in {"ReconcileLoadbalancers", "DeleteLoadbalancers"} -> "loadbalancer"
      [] op \in {"ReconcileBucket", "DeleteBucket"} -> "bucket"

Call(op, in) == [op |-> op, ok |-> KindOf(op) \notin in.fail]

\* The error a failed call returned.
ErrorOf(c) == <<c.op>>

\* reconcile.Result{} with an error or nil
Return(o, cs, err) ==
    [obj |-> o, calls |-> cs, res |-> [requeueAfter |-> 0, err |-> err]]

\* reconcile.Result{RequeueAfter: 15 * time.Second}, nil
RequeueDelay == 15

Requeue(o, cs) ==
    [obj |-> o, calls |-> cs, res |-> [requeueAfter |-> RequeueDelay, err |-> NoError]]

----------------------------------------------------------------------------
(* The delete pipeline.                                                    *)

\* reconcileDelete, had the error of DeleteLoadbalancers only been logged.
reconcileDeleteLBLogged(o, in, gate) ==
    LET ev == IF gate THEN <<Call("DeleteEC2Events", in)>> ELSE <<>>
        lb == Call("DeleteLoadbalancers", in)
        ba == Call("DeleteBastion", in)
        sg == Call("DeleteSecurityGroups", in)
        nw == Call("DeleteNetwork", in)
        s3 == Call("DeleteBucket", in)
    IN  IF ~ba.ok THEN Return(o, ev \o <<lb, ba>>, ErrorOf(ba))
        ELSE IF ~sg.ok THEN Return(o, ev \o <<lb, ba, sg>>, ErrorOf(sg))
        ELSE IF ~nw.ok THEN Return(o, ev \o <<lb, ba, sg, nw>>, ErrorOf(nw))
        ELSE IF ~s3.ok
            THEN Return(o, ev \o <<lb, ba, sg, nw, s3>>,
                        Wrap(ErrorOf(s3), "error deleting S3 Bucket"))
        ELSE Return(RemoveFinalizer(o), ev \o <<lb, ba, sg, nw, s3>>, NoError)

\* reconcileDelete, had the finalizer been removed before the bucket is deleted.
reconcileDeleteFinalizerEarly(o, in, gate) ==
    LET ev == IF gate THEN <<Call("DeleteEC2Events", in)>> ELSE <<>>
        lb == Call("DeleteLoadbalancers", in)
        ba == Call("DeleteBastion", in)
        sg == Call("DeleteSecurityGroups", in)
        nw == Call("DeleteNetwork", in)
        s3 == Call("DeleteBucket", in)
    IN  IF ~lb.ok THEN Return(o, ev \o <<lb>>, ErrorOf(lb))
        ELSE IF ~ba.ok THEN Return(o, ev \o <<lb, ba>>, ErrorOf(ba))
        ELSE IF ~sg.ok THEN Return(o, ev \o <<lb, ba, sg>>, ErrorOf(sg))
        ELSE IF ~nw.ok THEN Return(o, ev \o <<lb, ba, sg, nw>>, ErrorOf(nw))
        ELSE IF ~s3.ok
            THEN Return(RemoveFinalizer(o), ev \o <<lb, ba, sg, nw, s3>>,
                        Wrap(ErrorOf(s3), "error deleting S3 Bucket"))
        ELSE Return(RemoveFinalizer(o), ev \o <<lb, ba, sg, nw, s3>>, NoError)

\* reconcileDelete, had the finalizer been kept after the last deletion.
reconcileDeleteKeepsFinalizer(o, in, gate) ==
    LET ev == IF gate THEN <<Call("DeleteEC2Events", in)>> ELSE <<>>
        lb == Call("DeleteLoadbalancers", in)
        ba == Call("DeleteBastion", in)
        sg == Call("DeleteSecurityGroups", in)
        nw == Call("DeleteNetwork", in)
        s3 == Call("DeleteBucket", in)
    IN  IF ~lb.ok THEN Return(o, ev \o <<lb>>, ErrorOf(lb))
        ELSE IF ~ba.ok THEN Return(o, ev \o <<lb, ba>>, ErrorOf(ba))
        ELSE IF ~sg.ok THEN Return(o, ev \o <<lb, ba, sg>>, ErrorOf(sg))
        ELSE IF ~nw.ok THEN Return(o, ev \o <<lb, ba, sg, nw>>, ErrorOf(nw))
        ELSE IF ~s3.ok
            THEN Return(o, ev \o <<lb, ba, sg, nw, s3>>,
                        Wrap(ErrorOf(s3), "error deleting S3 Bucket"))
        ELSE Return(o, ev \o <<lb, ba, sg, nw, s3>>, NoError)

\* reconcileDelete, had a failure of DeleteEC2Events been returned.
reconcileDeleteEventsFatal(o, in, gate) ==
    LET ev == IF gate THEN <<Call("DeleteEC2Events", in)>> ELSE <<>>
        lb == Call("DeleteLoadbalancers", in)
        ba == Call("DeleteBastion", in)
        sg == Call("DeleteSecurityGroups", in)
        nw == Call("DeleteNetwork", in)
        s3 == Call("DeleteBucket", in)
    IN  IF gate /\ ~ev[1].ok THEN Return(o, ev, ErrorOf(ev[1]))
        ELSE IF ~lb.ok THEN Return(o, ev \o <<lb>>, ErrorOf(lb))
        ELSE IF ~ba.ok THEN Return(o, ev \o <<lb, ba>>, ErrorOf(ba))
        ELSE IF ~sg.ok THEN Return(o, ev \o <<lb, ba, sg>>, ErrorOf(sg))
        ELSE IF ~nw.ok THEN Return(o, ev \o <<lb, ba, sg, nw>>, ErrorOf(nw))
        ELSE IF ~s3.ok
            THEN Return(o, ev \o <<lb, ba, sg, nw, s3>>,
                        Wrap(ErrorOf(s3), "error deleting S3 Bucket"))
        ELSE Return(RemoveFinalizer(o), ev \o <<lb, ba, sg, nw, s3>>, NoError)

reconcileDelete(o, in, gate) ==
    LET ev == IF gate THEN <<Call("DeleteEC2Events", in)>> ELSE <<>>
        lb == Call("DeleteLoadbalancers", in)
        ba == Call("DeleteBastion", in)
        sg == Call("DeleteSecurityGroups", in)
        nw == Call("DeleteNetwork", in)
        s3 == Call("DeleteBucket", in)
    IN  \* a failure of DeleteEC2Events is logged as non-fatal (lines 247-253)
        IF ~lb.ok THEN Return(o, ev \o <<lb>>, ErrorOf(lb))
        ELSE IF ~ba.ok THEN Return(o, ev \o <<lb, ba>>, ErrorOf(ba))
        ELSE IF ~sg.ok THEN Return(o, ev \o <<lb, ba, sg>>, ErrorOf(sg))
        ELSE IF ~nw.ok THEN Return(o, ev \o <<lb, ba, sg, nw>>, ErrorOf(nw))
        ELSE IF ~s3.ok
            THEN Return(o, ev \o <<lb, ba, sg, nw, s3>>,
                        Wrap(ErrorOf(s3), "error deleting S3 Bucket"))
        ELSE Return(RemoveFinalizer(o), ev \o <<lb, ba, sg, nw, s3>>, NoError)

----------------------------------------------------------------------------
(* The create pipeline.                                                    *)

\* What a failed ReconcileNetwork leaves in the object: the converger sets its
\* condition False with the error's message before it returns the error.
ReconcileNetwork(o, in) ==
    MarkFalse(o, "NetworkReadyCondition", "NetworkReconciliationFailedReason",
              ErrorConditionAfterInit, <<"ReconcileNetwork">>)

\* What a successful ReconcileLoadbalancers leaves in the object: the observed
\* load balancer (DNS name, availability zones) in Status.Network.APIServerELB.
ReconcileLoadbalancers(o, in) == [o EXCEPT !.elb = in.elb]

\* net.LookupIP(DNSName)
LookupIP(in) == [op |-> "LookupIP", ok |-> in.resolves]

\* waitAndPublish, had the ready flag been left alone at the end.
waitAndPublishNeverReady(o, cs, in) ==
    IF o.elb.dns = ""
      THEN Requeue(MarkFalse(o, "LoadBalancerReadyCondition", "WaitForDNSNameReason",
                             "Info", NoError),
                   cs)
    ELSE IF ~LookupIP(in).ok
      THEN Requeue(MarkFalse(o, "LoadBalancerReadyCondition", "WaitForDNSNameResolveReason",
                             "Info", NoError),
                   cs \o <<LookupIP(in)>>)
    ELSE Return(SetFailureDomains(
                    [MarkTrue(o, "LoadBalancerReadyCondition")
                        EXCEPT !.endpoint = [host |-> o.elb.dns, port |-> in.port]],
                    Subnets),
                cs \o <<LookupIP(in)>>, NoError)

\* waitAndPublish, had the object been marked ready while its name does not resolve.
waitAndPublishReadyUnresolved(o, cs, in) ==
    IF o.elb.dns = ""
      THEN Requeue(MarkFalse(o, "LoadBalancerReadyCondition", "WaitForDNSNameReason",
                             "Info", NoError),
                   cs)
    ELSE IF ~LookupIP(in).ok
      THEN Requeue([MarkFalse(o, "LoadBalancerReadyCondition",
                              "WaitForDNSNameResolveReason", "Info", NoError)
                      EXCEPT !.ready = TRUE],
                   cs \o <<LookupIP(in)>>)
    ELSE Return([SetFailureDomains(
                    [MarkTrue(o, "LoadBalancerReadyCondition")
                        EXCEPT !.endpoint = [host |-> o.elb.dns, port |-> in.port]],
                    Subnets)
                  EXCEPT !.ready = TRUE],
                cs \o <<LookupIP(in)>>, NoError)

\* waitAndPublish, had the endpoint been published before the name resolves.
waitAndPublishEndpointFirst(o, cs, in) ==
    IF o.elb.dns = ""
      THEN Requeue(MarkFalse(o, "LoadBalancerReadyCondition", "WaitForDNSNameReason",
                             "Info", NoError),
                   cs)
    ELSE IF ~LookupIP(in).ok
      THEN Requeue([MarkFalse(o, "LoadBalancerReadyCondition",
                              "WaitForDNSNameResolveReason", "Info", NoError)
                      EXCEPT !.endpoint = [host |-> o.elb.dns, port |-> in.port]],
                   cs \o <<LookupIP(in)>>)
    ELSE Return([SetFailureDomains(
                    [MarkTrue(o, "LoadBalancerReadyCondition")
                        EXCEPT !.endpoint = [host |-> o.elb.dns, port |-> in.port]],
                    Subnets)
                  EXCEPT !.ready = TRUE],
                cs \o <<LookupIP(in)>>, NoError)

\* The end of reconcileNormal, after every converger succeeded (lines 344-377):
\* wait for the load balancer's DNS name and for the name to resolve, then publish
\* the control plane endpoint, set the failure domains and mark the object ready.
\* o is the object, cs the calls made so far.
waitAndPublish(o, cs, in) ==
    IF o.elb.dns = ""
      THEN Requeue(MarkFalse(o, "LoadBalancerReadyCondition", "WaitForDNSNameReason",
                             "Info", NoError),
                   cs)
    ELSE IF ~LookupIP(in).ok
      THEN Requeue(MarkFalse(o, "LoadBalancerReadyCondition", "WaitForDNSNameResolveReason",
                             "Info", NoError),
                   cs \o <<LookupIP(in)>>)
    ELSE Return([SetFailureDomains(
                    [MarkTrue(o, "LoadBalancerReadyCondition")
                        EXCEPT !.endpoint = [host |-> o.elb.dns, port |-> in.port]],
                    Subnets)
                  EXCEPT !.ready = TRUE],
                cs \o <<LookupIP(in)>>, NoError)

\* reconcileNormal, had a failure of PatchObject after AddFinalizer only been logged.
reconcileNormalPatchLogged(o, in, gate) ==
    LET o1 == AddFinalizer(o)
        nw == Call("ReconcileNetwork", in)
        sg == Call("ReconcileSecurityGroups", in)
        ba == Call("ReconcileBastion", in)
        ev == IF gate THEN <<Call("ReconcileEC2Events", in)>> ELSE <<>>
        lb == Call("ReconcileLoadbalancers", in)
        s3 == Call("ReconcileBucket", in)
    IN  IF ~nw.ok THEN Return(ReconcileNetwork(o1, in), <<nw>>, ErrorOf(nw))
        ELSE IF ~sg.ok
            THEN Return(MarkFalse(o1, "ClusterSecurityGroupsReadyCondition",
                                  "ClusterSecurityGroupReconciliationFailedReason",
                                  ErrorConditionAfterInit, ErrorOf(sg)),
                        <<nw, sg>>, ErrorOf(sg))
        ELSE IF ~ba.ok
            THEN Return(MarkFalse(o1, "BastionHostReadyCondition", "BastionHostFailedReason",
                                  ErrorConditionAfterInit, ErrorOf(ba)),
                        <<nw, sg, ba>>, ErrorOf(ba))
        ELSE IF ~lb.ok
            THEN Return(MarkFalse(o1, "LoadBalancerReadyCondition", "LoadBalancerFailedReason",
                                  ErrorConditionAfterInit, ErrorOf(lb)),
                        <<nw, sg, ba>> \o ev \o <<lb>>, ErrorOf(lb))
        ELSE IF ~s3.ok
            THEN Return(MarkFalse(ReconcileLoadbalancers(o1, in), "S3BucketReadyCondition",
                                  "S3BucketFailedReason", "Error", ErrorOf(s3)),
                        <<nw, sg, ba>> \o ev \o <<lb, s3>>,
                        Wrap(ErrorOf(s3), "failed to reconcile S3 Bucket for AWSCluster"))
        ELSE waitAndPublish(ReconcileLoadbalancers(o1, in),
                            <<nw, sg, ba>> \o ev \o <<lb, s3>>, in)

\* reconcileNormal, had the security groups been reconciled before the network.
reconcileNormalGroupsFirst(o, in, gate) ==
    LET o1 == AddFinalizer(o)
        nw == Call("ReconcileNetwork", in)
        sg == Call("ReconcileSecurityGroups", in)
        ba == Call("ReconcileBastion", in)
        ev == IF gate THEN <<Call("ReconcileEC2Events", in)>> ELSE <<>>
        lb == Call("ReconcileLoadbalancers", in)
        s3 == Call("ReconcileBucket", in)
    IN  IF ~in.finalizerPatch THEN Return(o1, <<>>, <<"PatchObject">>)
        ELSE IF ~sg.ok
            THEN Return(MarkFalse(o1, "ClusterSecurityGroupsReadyCondition",
                                  "ClusterSecurityGroupReconciliationFailedReason",
                                  ErrorConditionAfterInit, ErrorOf(sg)),
                        <<sg>>, ErrorOf(sg))
        ELSE IF ~nw.ok THEN Return(ReconcileNetwork(o1, in), <<sg, nw>>, ErrorOf(nw))
        ELSE IF ~ba.ok
            THEN Return(MarkFalse(o1, "BastionHostReadyCondition", "BastionHostFailedReason",
                                  ErrorConditionAfterInit, ErrorOf(ba)),
                        <<sg, nw, ba>>, ErrorOf(ba))
        ELSE IF ~lb.ok
            THEN Return(MarkFalse(o1, "LoadBalancerReadyCondition", "LoadBalancerFailedReason",
                                  ErrorConditionAfterInit, ErrorOf(lb)),
                        <<sg, nw, ba>> \o ev \o <<lb>>, ErrorOf(lb))
        ELSE IF ~s3.ok
            THEN Return(MarkFalse(ReconcileLoadbalancers(o1, in), "S3BucketReadyCondition",
                                  "S3BucketFailedReason", "Error", ErrorOf(s3)),
                        <<sg, nw, ba>> \o ev \o <<lb, s3>>,
                        Wrap(ErrorOf(s3), "failed to reconcile S3 Bucket for AWSCluster"))
        ELSE waitAndPublish(ReconcileLoadbalancers(o1, in),
                            <<sg, nw, ba>> \o ev \o <<lb, s3>>, in)

\* reconcileNormal, had the bastion failure been returned without its condition.
reconcileNormalBastionUnmarked(o, in, gate) ==
    LET o1 == AddFinalizer(o)
        nw == Call("ReconcileNetwork", in)
        sg == Call("ReconcileSecurityGroups", in)
        ba == Call("ReconcileBastion", in)
        ev == IF gate THEN <<Call("ReconcileEC2Events", in)>> ELSE <<>>
        lb == Call("ReconcileLoadbalancers", in)
        s3 == Call("ReconcileBucket", in)
    IN  IF ~in.finalizerPatch THEN Return(o1, <<>>, <<"PatchObject">>)
        ELSE IF ~nw.ok THEN Return(ReconcileNetwork(o1, in), <<nw>>, ErrorOf(nw))
        ELSE IF ~sg.ok
            THEN Return(MarkFalse(o1, "ClusterSecurityGroupsReadyCondition",
                                  "ClusterSecurityGroupReconciliationFailedReason",
                                  ErrorConditionAfterInit, ErrorOf(sg)),
                        <<nw, sg>>, ErrorOf(sg))
        ELSE IF ~ba.ok THEN Return(o1, <<nw, sg, ba>>, ErrorOf(ba))
        ELSE IF ~lb.ok
            THEN Return(MarkFalse(o1, "LoadBalancerReadyCondition", "LoadBalancerFailedReason",
                                  ErrorConditionAfterInit, ErrorOf(lb)),
                        <<nw, sg, ba>> \o ev \o <<lb>>, ErrorOf(lb))
        ELSE IF ~s3.ok
            THEN Return(MarkFalse(ReconcileLoadbalancers(o1, in), "S3BucketReadyCondition",
                                  "S3BucketFailedReason", "Error", ErrorOf(s3)),
                        <<nw, sg, ba>> \o ev \o <<lb, s3>>,
                        Wrap(ErrorOf(s3), "failed to reconcile S3 Bucket for AWSCluster"))
        ELSE waitAndPublish(ReconcileLoadbalancers(o1, in),
                            <<nw, sg, ba>> \o ev \o <<lb, s3>>, in)

reconcileNormal(o, in, gate) ==
    LET o1 == AddFinalizer(o)
        nw == Call("ReconcileNetwork", in)
        sg == Call("ReconcileSecurityGroups", in)
        ba == Call("ReconcileBastion", in)
        ev == IF gate THEN <<Call("ReconcileEC2Events", in)>> ELSE <<>>
        lb == Call("ReconcileLoadbalancers", in)
        s3 == Call("ReconcileBucket", in)
    IN  \* the finalizer is registered at once (lines 291-295)
        IF ~in.finalizerPatch THEN Return(o1, <<>>, <<"PatchObject">>)
        ELSE IF ~nw.ok THEN Return(ReconcileNetwork(o1, in), <<nw>>, ErrorOf(nw))
        ELSE IF ~sg.ok
            THEN Return(MarkFalse(o1, "ClusterSecurityGroupsReadyCondition",
                                  "ClusterSecurityGroupReconciliationFailedReason",
                                  ErrorConditionAfterInit, ErrorOf(sg)),
                        <<nw, sg>>, ErrorOf(sg))
        ELSE IF ~ba.ok
            THEN Return(MarkFalse(o1, "BastionHostReadyCondition", "BastionHostFailedReason",
                                  ErrorConditionAfterInit, ErrorOf(ba)),
                        <<nw, sg, ba>>, ErrorOf(ba))
        \* a failure of ReconcileEC2Events is logged as non-fatal (lines 325-331)
        ELSE IF ~lb.ok
            THEN Return(MarkFalse(o1, "LoadBalancerReadyCondition", "LoadBalancerFailedReason",
                                  ErrorConditionAfterInit, ErrorOf(lb)),
                        <<nw, sg, ba>> \o ev \o <<lb>>, ErrorOf(lb))
        ELSE IF ~s3.ok
            THEN Return(MarkFalse(ReconcileLoadbalancers(o1, in), "S3BucketReadyCondition",
                                  "S3BucketFailedReason", "Error", ErrorOf(s3)),
                        <<nw, sg, ba>> \o ev \o <<lb, s3>>,
                        Wrap(ErrorOf(s3), "failed to reconcile S3 Bucket for AWSCluster"))
        ELSE waitAndPublish(ReconcileLoadbalancers(o1, in),
                            <<nw, sg, ba>> \o ev \o <<lb, s3>>, in)

----------------------------------------------------------------------------
(* The admission webhooks of AWSCluster: Default, then ValidateUpdate.      *)

\* Spec.ControlPlaneLoadBalancer: nil, or a load balancer with a scheme or with
\* none.
NoLoadBalancer == [nil |-> TRUE]

ClassicELBSchemeInternetFacing == "internet-facing"

LoadBalancerSpecs ==
    {NoLoadBalancer}
    \cup [nil : {FALSE}, scheme : {Nil, ClassicELBSchemeInternetFacing, "internal"}]

\* NetworkSpec{} and VPCSpec{}
ZeroVPC == [id |-> "", cidrBlock |-> ""]

ZeroNetwork == [vpc |-> ZeroVPC, subnets |-> <<>>, cni |-> Nil]

\* The ingress rules SetDefaults_NetworkSpec gives a network without CNI rules.
DefaultCNI == "default-cni-ingress-rules"

\* Spec.NetworkSpec: nothing, subnets and no VPC, or a VPC with an id, each with
\* or without CNI rules.
NetworkSpecs ==
    [ vpc     : {ZeroVPC, [id |-> "vpc-1", cidrBlock |-> ""], [id |-> "vpc-2", cidrBlock |-> ""]},
      subnets : {<<>>},
      cni     : {Nil, DefaultCNI} ]
    \cup [vpc : {ZeroVPC}, subnets : {<<"subnet-1">>}, cni : {Nil, DefaultCNI}]

\* Spec.ControlPlaneEndpoint
Endpoints ==
    { ZeroEndpoint, [host |-> "elb-1.example", port |-> 6443],
      [host |-> "elb-2.example", port |-> 6443] }

\* The name of the identity SetDefaultsAWSClusterSpec refers to.
AWSClusterControllerIdentityName == "default"

\* The AWSCluster objects a request to the API server may carry.
AWSClusters ==
    [ region               : {"us-east-1", "us-west-2"},
      loadBalancer         : LoadBalancerSpecs,
      controlPlaneEndpoint : Endpoints,
      networkSpec          : NetworkSpecs,
      identityRef          : {Nil, AWSClusterControllerIdentityName, "custom"},
      externallyManaged    : BOOLEAN,
      bastionValid         : BOOLEAN ]

\* The scheme of the load balancer ValidateUpdate compares: that of an empty
\* AWSLoadBalancerSpec when the object has no load balancer.
SchemeOf(loadBalancer) == IF loadBalancer.nil THEN Nil ELSE loadBalancer.scheme

\* What ValidateUpdate does for the scheme of the load balancer: the error it
\* adds, if any.  When the schemes differ it builds the error from
\* r.Spec.ControlPlaneLoadBalancer.Scheme, and panics with a nil pointer dereference
\* if the update has no load balancer.
validateScheme(r, oldC) ==
    IF oldC.loadBalancer.nil
      THEN IF /\ SchemeOf(r.loadBalancer) # Nil
              /\ SchemeOf(r.loadBalancer) # ClassicELBSchemeInternetFacing
             THEN [panic |-> FALSE, errs |-> <<"spec.controlPlaneLoadBalancer.scheme">>]
             ELSE [panic |-> FALSE, errs |-> <<>>]
    ELSE IF SchemeOf(oldC.loadBalancer) # SchemeOf(r.loadBalancer)
      THEN IF r.loadBalancer.nil
             THEN [panic |-> TRUE, errs |-> <<>>]
             ELSE [panic |-> FALSE, errs |-> <<"spec.controlPlaneLoadBalancer.scheme">>]
    ELSE [panic |-> FALSE, errs |-> <<>>]

\* ValidateUpdate panicked: it returns nothing.
Panicked == [panic |-> TRUE, allErrs |-> <<>>]

\* The error ValidateUpdate adds for the VPC, if any.
validateVPC(r, oldC) ==
    IF /\ oldC.networkSpec # ZeroNetwork
       /\ oldC.networkSpec.vpc # ZeroVPC
       /\ oldC.networkSpec.vpc.id # ""
       /\ \/ r.networkSpec = ZeroNetwork
          \/ r.networkSpec.vpc = ZeroVPC
          \/ oldC.networkSpec.vpc.id # r.networkSpec.vpc.id
      THEN <<"spec.networkSpec.vpc.id">>
      ELSE <<>>

\* ValidateUpdate with the control plane endpoint free to change.
ValidateUpdateEndpointFree(r, oldC) ==
    IF validateScheme(r, oldC).panic THEN Panicked
    ELSE [panic |-> FALSE,
          allErrs |->
              (IF r.region # oldC.region THEN <<"spec.region">> ELSE <<>>)
              \o validateScheme(r, oldC).errs
              \o validateVPC(r, oldC)]

\* AWSCluster.ValidateUpdate(old): the paths of the fields it reports, none when
\* the update is accepted; or the panic in the check of the scheme.
ValidateUpdate(r, oldC) ==
    IF validateScheme(r, oldC).panic THEN Panicked
    ELSE [panic |-> FALSE,
          allErrs |->
              (IF r.region # oldC.region THEN <<"spec.region">> ELSE <<>>)
              \o validateScheme(r, oldC).errs
              \o (IF /\ oldC.controlPlaneEndpoint # ZeroEndpoint
                     /\ r.controlPlaneEndpoint # oldC.controlPlaneEndpoint
                    THEN <<"spec.controlPlaneEndpoint">> ELSE <<>>)
              \o validateVPC(r, oldC)
              \o (IF oldC.identityRef # Nil /\ r.identityRef = Nil
                    THEN <<"spec.identityRef">> ELSE <<>>)
              \o (IF oldC.externallyManaged /\ ~r.externallyManaged
                    THEN <<"metadata.annotations">> ELSE <<>>)
              \o (IF r.bastionValid THEN <<>> ELSE <<"spec.bastion">>)]

\* SetDefaults_Bastion: opens the bastion to every address when no CIDR block is
\* given; whether Bastion.Validate accepts the bastion stays as it is.
SetDefaults_Bastion(bastionValid) == bastionValid

\* SetDefaults_NetworkSpec: a network without CNI rules gets the default ones.
SetDefaults_NetworkSpec(networkSpec) ==
    IF networkSpec.cni = Nil THEN [networkSpec EXCEPT !.cni = DefaultCNI] ELSE networkSpec

\* SetDefaultsAWSClusterSpec, on the fields of the spec.
SetDefaultsAWSClusterSpec(r) ==
    [r EXCEPT !.bastionValid = SetDefaults_Bastion(r.bastionValid),
              !.networkSpec = SetDefaults_NetworkSpec(r.networkSpec),
              !.identityRef = IF r.identityRef = Nil THEN AWSClusterControllerIdentityName
                              ELSE r.identityRef]

\* AWSCluster.Default(), the mutating webhook for create and update.
Default(r) == SetDefaultsAWSClusterSpec(r)

----------------------------------------------------------------------------
(* Reconcile.                                                              *)

\* What the store holds after a patch with object o went through: an object with
\* a deletion marker and no finalizer left is removed.
Persist(o) == IF o.deletionTimestamp /\ ~o.finalizer THEN Gone ELSE o

\* The AWSCluster the webhooks are shown for the object o.  Of the fields they look
\* at, the reconciler writes the control plane endpoint only.
Admission(o) ==
    [ region               |-> "us-east-1",
      loadBalancer         |-> NoLoadBalancer,
      controlPlaneEndpoint |-> o.endpoint,
      networkSpec          |-> [ZeroNetwork EXCEPT !.cni = DefaultCNI],
      identityRef          |-> AWSClusterControllerIdentityName,
      externallyManaged    |-> FALSE,
      bastionValid         |-> TRUE ]

\* The API server, had the webhooks not been registered for updates.
AdmitsUnasked(o, s) == TRUE

\* The API server lets the update of the stored object s to o through: the
\* webhooks are asked about every update of the object (failurePolicy=fail).
Admits(o, s) ==
    LET v == ValidateUpdate(Default(Admission(o)), Admission(s))
    IN  ~v.panic /\ v.allErrs = <<>>

\* The requests of one patch, in the order the patch helper sends them: the
\* conditions, the metadata and spec, the rest of the status.
PatchParts == {"conditions", "object", "status"}

\* A part in which the in-memory object o does not differ from base, the copy the
\* call loaded, is not sent.
SentParts(base, o) ==
    {p \in PatchParts :
        \/ p = "conditions" /\ o.conditions # base.conditions
        \/ p = "object" /\ (o.finalizer # base.finalizer \/ o.endpoint # base.endpoint)
        \/ p = "status" /\ \/ o.ready # base.ready
                           \/ o.elb # base.elb
                           \/ o.failureDomains # base.failureDomains}

\* What each request leaves in the stored object s: the fields in which o differs
\* from base are written, the store keeps every other field as it is.  Reconcile
\* changes neither the deletion timestamp, nor the owner reference, nor the paused
\* annotation.
PatchConditions(s, base, o) ==
    [s EXCEPT !.conditions =
        [t \in CondTypes |->
            IF o.conditions[t] # base.conditions[t] THEN o.conditions[t]
            ELSE s.conditions[t]]]

PatchMetadataAndSpec(s, base, o) ==
    [s EXCEPT !.finalizer = IF o.finalizer # base.finalizer THEN o.finalizer ELSE s.finalizer,
              !.endpoint = IF o.endpoint # base.endpoint THEN o.endpoint ELSE s.endpoint]

PatchStatus(s, base, o) ==
    [s EXCEPT !.ready = IF o.ready # base.ready THEN o.ready ELSE s.ready,
              !.elb = IF o.elb # base.elb THEN o.elb ELSE s.elb,
              !.failureDomains =
                  [z \in Zones |->
                      IF o.failureDomains[z] # base.failureDomains[z] THEN o.failureDomains[z]
                      ELSE s.failureDomains[z]]]

\* The order in which a patch sends its requests.
PartOrder == <<"conditions", "object", "status">>

\* The place in PartOrder of the first request at place i or later that the patch
\* sends, and 0 when it sends no more.
NextPart(sent, i) ==
    IF \E j \in i..Len(PartOrder) : PartOrder[j] \in sent
      THEN CHOOSE j \in i..Len(PartOrder) :
              /\ PartOrder[j] \in sent
              /\ \A k \in i..(j - 1) : PartOrder[k] \notin sent
    ELSE 0

\* One request of a patch to the API server, which holds the object s: a request
\* that fails does not get through, a request for an object the store has removed
\* is refused, and the update of the metadata and spec has to pass the webhooks;
\* the status is a subresource, which the webhooks are not asked about.
PatchRequest(s, base, o, p, fails) ==
    IF fails \/ ~s.exists THEN [stored |-> s, ok |-> FALSE]
    ELSE IF p = "conditions" THEN [stored |-> PatchConditions(s, base, o), ok |-> TRUE]
    ELSE IF p = "status" THEN [stored |-> PatchStatus(s, base, o), ok |-> TRUE]
    ELSE IF Admits(PatchMetadataAndSpec(s, base, o), s)
      THEN [stored |-> Persist(PatchMetadataAndSpec(s, base, o)), ok |-> TRUE]
    ELSE [stored |-> s, ok |-> FALSE]

\* One patch of the stored object s with nothing else written in between: the
\* requests in failed do not get through.  The patch reports an error unless every
\* request it sent was carried out.
Patch(s, base, o, failed) ==
    LET sent == SentParts(base, o)
        skip(t) == [stored |-> t, ok |-> TRUE]
        r1 == IF "conditions" \in sent
                THEN PatchRequest(s, base, o, "conditions", "conditions" \in failed)
                ELSE skip(s)
        r2 == IF "object" \in sent
                THEN PatchRequest(r1.stored, base, o, "object", "object" \in failed)
                ELSE skip(r1.stored)
        r3 == IF "status" \in sent
                THEN PatchRequest(r2.stored, base, o, "status", "status" \in failed)
                ELSE skip(r2.stored)
    IN  [stored |-> r3.stored, ok |-> r1.ok /\ r2.ok /\ r3.ok]

Snapshot(o, in) ==
    [ invoked |-> TRUE, fault |-> in.fault, exists |-> o.exists,
      deletionTimestamp |-> o.deletionTimestamp, paused |-> o.paused,
      hasOwner |-> o.hasOwner, endpoint |-> o.endpoint, ready |-> o.ready ]

\* A return before a pipeline: nothing is called.
Early(o, err) == Return(o, <<>>, err)

\* The deferred function of lines 223-227, had the error of clusterScope.Close()
\* only been printed like that of helper.Patch.
CloseLogged(res, ok) == res

\* The deferred function of lines 223-227: the error of clusterScope.Close()
\* becomes the error Reconcile returns if there was none.
Close(res, ok) ==
    [res EXCEPT !.err = IF ~ok /\ res.err = NoError THEN <<"Close">> ELSE res.err]

\* Reconcile, had the deletion timestamp not been looked at.
ReconcileIgnoringDeletion(o, in, gate) ==
    IF in.fault = "get" THEN Early(o, <<"Get">>)
    ELSE IF ~o.exists THEN Early(o, NoError)
    ELSE IF in.fault = "owner" THEN Early(o, <<"GetOwnerCluster">>)
    ELSE IF ~o.hasOwner THEN Early(o, NoError)
    ELSE IF o.paused THEN Early(o, NoError)
    ELSE IF in.fault = "helper" THEN Early(o, Wrap(<<"NewHelper">>, "failed to init patch helper"))
    ELSE IF in.fault = "scope" THEN Early(o, <<"failed to create scope">>)
    ELSE reconcileNormal(o, in, gate)

\* Reconcile(ctx, req) down to its return statement: obj is the in-memory object,
\* calls the calls made and res the values returned; the deferred functions run
\* after it.
Reconcile(o, in, gate) ==
    IF in.fault = "get" THEN Early(o, <<"Get">>)
    ELSE IF ~o.exists THEN Early(o, NoError)
    ELSE IF in.fault = "owner" THEN Early(o, <<"GetOwnerCluster">>)
    ELSE IF ~o.hasOwner THEN Early(o, NoError)
    ELSE IF o.paused THEN Early(o, NoError)
    ELSE IF in.fault = "helper" THEN Early(o, Wrap(<<"NewHelper">>, "failed to init patch helper"))
    ELSE IF in.fault = "scope" THEN Early(o, <<"failed to create scope">>)
    ELSE IF o.deletionTimestamp THEN reconcileDelete(o, in, gate)
    ELSE reconcileNormal(o, in, gate)

----------------------------------------------------------------------------
(* The instance service: the security groups of network interfaces and the  *)
(* tags of an instance.                                                     *)

\* The network interfaces of the instance, in the order getInstanceENIs lists them.
ENIs == <<"eni-1", "eni-2">>

ENISet == {ENIs[i] : i \in 1..Len(ENIs)}

TagKeys == {"Name", "role"}

TagValues == {"v1", "v2"}

\* The value of a key that a tag map does not hold.
NoTag == "-"

TagMaps == [TagKeys -> TagValues \cup {NoTag}]

NoMachine == [groups |-> <<>>, tags |-> [k \in TagKeys |-> NoTag]]

\* A mutating EC2 call and whether it succeeded.
Mutation(op, fail) == [op |-> op, ok |-> fail # op]

\* containsGroup(list, strToSearch)
containsGroup(list, strToSearch) == \E i \in 1..Len(list) : list[i] = strToSearch

\* filterGroups(list, strToFilter)
filterGroups(list, strToFilter) == SelectSeq(list, LAMBDA item : item # strToFilter)

\* The group set AWS keeps for an interface when it is given the list q.
RECURSIVE GroupSetOf(_)
GroupSetOf(q) ==
    IF q = <<>> THEN <<>>
    ELSE LET rest == GroupSetOf(SubSeq(q, 1, Len(q) - 1))
         IN IF containsGroup(rest, q[Len(q)]) THEN rest ELSE Append(rest, q[Len(q)])

\* attachSecurityGroupsToNetworkInterface, had it sent the requested groups in
\* place of the groups of the interface.
attachSecurityGroupsReplacing(groups, existingGroups, fail) ==
    LET modify == Mutation("ModifyNetworkInterfaceAttribute", fail)
    IN  IF fail = "DescribeNetworkInterfaceAttribute"
          THEN [groups |-> existingGroups, issued |-> <<>>, sent |-> <<>>,
                err |-> <<"failed to look up network interface security groups",
                          "DescribeNetworkInterfaceAttribute">>]
        ELSE IF \A i \in 1..Len(groups) : containsGroup(existingGroups, groups[i])
          THEN [groups |-> existingGroups, issued |-> <<>>, sent |-> <<>>, err |-> NoError]
        ELSE IF ~modify.ok
          THEN [groups |-> existingGroups, issued |-> <<modify>>, sent |-> <<groups>>,
                err |-> <<"failed to modify interface", modify.op>>]
        ELSE [groups |-> GroupSetOf(groups), issued |-> <<modify>>, sent |-> <<groups>>,
              err |-> NoError]

\* attachSecurityGroupsToNetworkInterface(groups, interfaceID): existingGroups is
\* what getNetworkInterfaceSecurityGroups returns for the interface.  The result is
\* the groups AWS holds afterwards, the mutating calls made, the group list of
\* each, and the error.
attachSecurityGroupsToNetworkInterface(groups, existingGroups, fail) ==
    LET totalGroups ==
            existingGroups \o SelectSeq(groups, LAMBDA g : ~containsGroup(existingGroups, g))
        modify == Mutation("ModifyNetworkInterfaceAttribute", fail)
    IN  IF fail = "DescribeNetworkInterfaceAttribute"
          THEN [groups |-> existingGroups, issued |-> <<>>, sent |-> <<>>,
                err |-> <<"failed to look up network interface security groups",
                          "DescribeNetworkInterfaceAttribute">>]
        \* no new groups to attach
        ELSE IF Len(existingGroups) = Len(totalGroups)
          THEN [groups |-> existingGroups, issued |-> <<>>, sent |-> <<>>, err |-> NoError]
        ELSE IF ~modify.ok
          THEN [groups |-> existingGroups, issued |-> <<modify>>, sent |-> <<totalGroups>>,
                err |-> <<"failed to modify interface", modify.op>>]
        ELSE [groups |-> GroupSetOf(totalGroups), issued |-> <<modify>>,
              sent |-> <<totalGroups>>, err |-> NoError]

\* The loop of UpdateInstanceSecurityGroups from the i-th interface on: attached
\* maps each interface to its groups, done are the mutating calls made so far and
\* sent the interface and the group list of each.
RECURSIVE attachFrom(_, _, _, _, _, _)
attachFrom(i, ids, attached, done, sent, fail) ==
    IF i > Len(ENIs)
      THEN [groups |-> attached, issued |-> done, sent |-> sent, err |-> NoError]
    ELSE LET r == attachSecurityGroupsToNetworkInterface(ids, attached[ENIs[i]], fail)
             s == sent \o [j \in 1..Len(r.sent) |-> [eni |-> ENIs[i], groups |-> r.sent[j]]]
         IN IF r.err # NoError
              THEN [groups |-> attached, issued |-> done \o r.issued, sent |-> s,
                    err |-> Wrap(r.err, "failed to modify network interfaces on instance")]
            ELSE attachFrom(i + 1, ids, [attached EXCEPT ![ENIs[i]] = r.groups],
                            done \o r.issued, s, fail)

\* UpdateInstanceSecurityGroups(instanceID, ids)
UpdateInstanceSecurityGroups(ids, attached, fail) ==
    IF fail = "DescribeNetworkInterfaces"
      THEN [groups |-> attached, issued |-> <<>>, sent |-> <<>>,
            err |-> <<"failed to get ENIs for instance", "DescribeNetworkInterfaces">>]
    ELSE attachFrom(1, ids, attached, <<>>, <<>>, fail)

\* len(m) > 0 for a tag map m
HasTags(m) == \E k \in TagKeys : m[k] # NoTag

\* What CreateTags and DeleteTags do to the tags of a resource.
CreateTags(tags, create) == [k \in TagKeys |-> IF create[k] # NoTag THEN create[k] ELSE tags[k]]

DeleteTags(tags, remove) == [k \in TagKeys |-> IF remove[k] = tags[k] THEN NoTag ELSE tags[k]]

\* UpdateResourceTags, had it issued both calls whenever there is any change.
UpdateResourceTagsTogether(tags, create, remove, fail) ==
    LET c == Mutation("CreateTags", fail)
        d == Mutation("DeleteTags", fail)
        any == HasTags(create) \/ HasTags(remove)
        created == IF any THEN CreateTags(tags, create) ELSE tags
        cs == IF any THEN <<c>> ELSE <<>>
    IN  IF any /\ ~c.ok
          THEN [tags |-> tags, issued |-> <<c>>,
                err |-> <<"failed to create tags for resource", c.op>>]
        ELSE IF any /\ ~d.ok
          THEN [tags |-> created, issued |-> cs \o <<d>>,
                err |-> <<"failed to delete tags for resource", d.op>>]
        ELSE IF any
          THEN [tags |-> DeleteTags(created, remove), issued |-> cs \o <<d>>, err |-> NoError]
        ELSE [tags |-> created, issued |-> cs, err |-> NoError]

\* UpdateResourceTags(resourceID, create, remove): tags are the tags of the resource.
UpdateResourceTags(tags, create, remove, fail) ==
    LET c == Mutation("CreateTags", fail)
        d == Mutation("DeleteTags", fail)
        created == IF HasTags(create) THEN CreateTags(tags, create) ELSE tags
        cs == IF HasTags(create) THEN <<c>> ELSE <<>>
    IN  IF HasTags(create) /\ ~c.ok
          THEN [tags |-> tags, issued |-> <<c>>,
                err |-> <<"failed to create tags for resource", c.op>>]
        ELSE IF HasTags(remove) /\ ~d.ok
          THEN [tags |-> created, issued |-> cs \o <<d>>,
                err |-> <<"failed to delete tags for resource", d.op>>]
        ELSE IF HasTags(remove)
          THEN [tags |-> DeleteTags(created, remove), issued |-> cs \o <<d>>, err |-> NoError]
        ELSE [tags |-> created, issued |-> cs, err |-> NoError]

\* s.scope.VPC().ID
ClusterVPC == "vpc-1"

\* filter.EC2.VPC(id)
VPC(id) == [name |-> "vpc-id", values |-> <<id>>]

\* A nil *infrav1.Instance.
NilInstance == [nil |-> TRUE]

\* Service.SDKToInstance(v)
SDKToInstance(v) ==
    [ nil |-> FALSE, id |-> v.instanceId, state |-> v.state, type |-> v.instanceType,
      subnetID |-> IF v.subnetId = Nil THEN "" ELSE v.subnetId, imageID |-> v.imageId,
      sshKeyName |-> v.keyName ]

\* s.scope.Name() and scope.Name(): the cluster and the machine.
ClusterName == "cluster-1"

MachineName == "machine-1"

\* filter.EC2.ClusterOwned(clusterName), filter.EC2.Name(name) and
\* filter.EC2.InstanceStates(states...)
ClusterOwned(clusterName) ==
    [name |-> "tag:sigs.k8s.io/cluster-api-provider-aws/cluster/" \o clusterName,
     values |-> <<"owned">>]

Name(name) == [name |-> "tag:Name", values |-> <<name>>]

InstanceStates(states) == [name |-> "instance-state-name", values |-> states]

\* awserrors.IsNotFound(err)
IsNotFound(err) == Len(err) > 0 /\ err[1] = "NotFound"

\* The first instance of the first reservation that has one, from the i-th
\* reservation on: the loops of GetRunningInstanceByTags.
RECURSIVE firstInstance(_, _)
firstInstance(i, reservations) ==
    IF i > Len(reservations) THEN NilInstance
    ELSE IF Len(reservations[i]) > 0 THEN SDKToInstance(reservations[i][1])
    ELSE firstInstance(i + 1, reservations)

\* GetRunningInstanceByTags looking at the first reservation only.
GetRunningInstanceByTagsFirstReservation(reservations, err) ==
    IF err # NoError /\ ~IsNotFound(err)
      THEN [instance |-> NilInstance,
            err |-> Wrap(err, "failed to describe instances by tags"),
            query |-> << VPC(ClusterVPC), ClusterOwned(ClusterName), Name(MachineName),
                         InstanceStates(<<"pending", "running">>) >>,
            event |-> "FailedDescribeInstances"]
    ELSE [instance |-> IF err = NoError /\ Len(reservations) > 0 /\ Len(reservations[1]) > 0
                         THEN SDKToInstance(reservations[1][1]) ELSE NilInstance,
          err |-> NoError,
          query |-> << VPC(ClusterVPC), ClusterOwned(ClusterName), Name(MachineName),
                       InstanceStates(<<"pending", "running">>) >>,
          event |-> "none"]

\* Service.GetRunningInstanceByTags(scope): reservations and err are the answer of
\* EC2 to DescribeInstances.  The result is the instance and the error, with the
\* filters of the query and the event recorded.
GetRunningInstanceByTags(reservations, err) ==
    LET filters ==
            << VPC(ClusterVPC), ClusterOwned(ClusterName), Name(MachineName),
               InstanceStates(<<"pending", "running">>) >>
    IN  IF IsNotFound(err)
          THEN [instance |-> NilInstance, err |-> NoError, query |-> filters,
                event |-> "none"]
        ELSE IF err # NoError
          THEN [instance |-> NilInstance,
                err |-> Wrap(err, "failed to describe instances by tags"),
                query |-> filters, event |-> "FailedDescribeInstances"]
        ELSE [instance |-> firstInstance(1, reservations), err |-> NoError,
              query |-> filters, event |-> "none"]

----------------------------------------------------------------------------
(* The inputs of one reconciliation.  An answer that the run never asks     *)
(* for is fixed to a default, so that equal runs are not drawn twice.       *)

Input(fault, fail, elb, resolves, port, fin) ==
    [ fault |-> fault, fail |-> fail, elb |-> elb, resolves |-> resolves, port |-> port,
      finalizerPatch |-> fin ]

\* What the load balancer shows, whether its name resolves, and the API port:
\* asked for only as far as the create pipeline gets with the failures in fail.
Observations(fail, elbs, ports) ==
    IF fail \cap {"network", "securitygroups", "bastion", "loadbalancer"} # {}
      THEN {<<NoELB, FALSE, 6443>>}
    ELSE IF "bucket" \in fail
      THEN {<<e, FALSE, 6443>> : e \in elbs}
    ELSE {<<NoELB, FALSE, 6443>>}
         \cup {<<e, FALSE, 6443>> : e \in elbs \ {NoELB}}
         \cup {<<e, TRUE, p>> : e \in elbs \ {NoELB}, p \in ports}

----------------------------------------------------------------------------
(* Actions.  A call of Reconcile takes one step for each of its reads of   *)
(* the store and for each request of a patch, and the store changes        *)
(* between them under the hands of users and of the Cluster controller.    *)
(* The calls to the services and to the resolver touch nothing of the      *)
(* store: they are taken in one step with the return statement they lead   *)
(* to.                                                                     *)

NoResult == [requeueAfter |-> 0, err |-> NoError]

NotInvoked ==
    [ invoked |-> FALSE, fault |-> "none", exists |-> FALSE, deletionTimestamp |-> FALSE,
      paused |-> FALSE, hasOwner |-> FALSE, endpoint |-> ZeroEndpoint, ready |-> FALSE ]

\* calls, result, seen and mem describe the call of Reconcile that last got to a
\* return statement, until something else happens: then no call is described.
NoReconcile == calls' = <<>> /\ result' = NoResult /\ seen' = NotInvoked /\ mem' = Gone

Init ==
    /\ awsCluster = NewObject
    /\ eventBridge \in BOOLEAN
    /\ calls = <<>>
    /\ result = NoResult
    /\ seen = NotInvoked
    /\ mem = Gone
    /\ inflight = Idle
    /\ request = NoRequest
    /\ reply = NoReply

\* The call in progress has found the owner cluster of the object it loaded, and
\* goes on to a pipeline.
RunsPipeline == inflight.phase \in {"owned", "registered", "unregistered"} /\ ~inflight.obj.paused

\* The call in progress is past its return statement and runs its deferred
\* functions.
Deferring == inflight.phase \in {"closing", "patching", "returning"}

\* The scheduler delivers a request for the object: Reconcile starts and r.Get
\* loads the object as the store holds it now.  n is the number of calls counted.
Get(n) ==
    /\ inflight.phase = "idle"
    /\ inflight' = [Idle EXCEPT !.phase = "loaded", !.obj = awsCluster, !.n = n]
    /\ NoReconcile
    /\ UNCHANGED <<awsCluster, eventBridge, rvars>>

\* One of the calls that are counted.
Fetch == inflight.n < MaxReconciles /\ Get(inflight.n + 1)

\* One of the calls without end.
FetchAgain == Get(inflight.n)

\* util.GetOwnerCluster reads the owning Cluster the loaded object refers to.  The
\* call is paused by the annotation of the object, as loaded, or by the Cluster's
\* spec.paused, as read now: the one flag of the model stands for both, so the call
\* goes on with the value it loaded or with the value of now.
ReadOwner ==
    /\ inflight.phase = "loaded"
    /\ inflight.obj.exists /\ inflight.obj.hasOwner
    /\ \E p \in {inflight.obj.paused} \cup (IF awsCluster.exists THEN {awsCluster.paused} ELSE {}) :
          inflight' = [inflight EXCEPT !.phase = "owned", !.obj.paused = p]
    /\ NoReconcile
    /\ UNCHANGED <<awsCluster, eventBridge, rvars>>

\* reconcileNormal adds the finalizer to its copy and patches the object at once.
RegisterFinalizer ==
    /\ inflight.phase = "owned"
    /\ RunsPipeline
    /\ ~inflight.obj.deletionTimestamp
    /\ \E failed \in SUBSET SentParts(inflight.obj, AddFinalizer(inflight.obj)) :
          LET p == Patch(awsCluster, inflight.obj, AddFinalizer(inflight.obj), failed)
          IN  /\ awsCluster' = p.stored
              /\ inflight' = [inflight EXCEPT !.phase = IF p.ok THEN "registered"
                                                        ELSE "unregistered"]
    /\ NoReconcile
    /\ UNCHANGED <<eventBridge, rvars>>

\* Reconcile runs on the copy it holds to a return statement, with the answers in.
ReconcileWith(in) ==
    \E r \in {Reconcile(inflight.obj, in, eventBridge)} :
       /\ mem' = r.obj
       /\ calls' = r.calls
       /\ result' = r.res
       /\ seen' = Snapshot(inflight.obj, in)
       /\ UNCHANGED <<awsCluster, eventBridge, rvars>>

\* The return of a call before it has deferred anything: r.Get or the read of the
\* owner cluster fails, the object is gone or has no owner, the call is paused, or
\* the patch helper cannot be made.
ReturnsBeforePipeline ==
    /\ inflight' = [Idle EXCEPT !.n = inflight.n]
    /\ \/ /\ inflight.phase = "loaded"
          /\ ReconcileWith(Input("get", {}, NoELB, FALSE, 6443, TRUE))
       \/ /\ inflight.phase = "loaded"
          /\ inflight.obj.exists /\ inflight.obj.hasOwner
          /\ ReconcileWith(Input("owner", {}, NoELB, FALSE, 6443, TRUE))
       \/ /\ inflight.phase = "loaded"
          /\ ~inflight.obj.exists \/ ~inflight.obj.hasOwner
          /\ ReconcileWith(Input("none", {}, NoELB, FALSE, 6443, TRUE))
       \/ /\ inflight.phase = "owned"
          /\ inflight.obj.paused
          /\ ReconcileWith(Input("none", {}, NoELB, FALSE, 6443, TRUE))
       \/ /\ inflight.phase = "owned"
          /\ ~inflight.obj.paused
          /\ ReconcileWith(Input("helper", {}, NoELB, FALSE, 6443, TRUE))

\* The call in progress goes on to a return statement.  Once the patch helper is
\* made its Patch is deferred, and once the scope is made its Close is.  The
\* services that fail are one of failSets, the load balancer shows one of elbs,
\* the API port is one of ports.
ReconcileSeeing(failSets, elbs, ports) ==
    \/ ReturnsBeforePipeline
    \/ /\ inflight.phase = "owned"
       /\ ~inflight.obj.paused
       /\ ReconcileWith(Input("scope", {}, NoELB, FALSE, 6443, TRUE))
       /\ inflight' = [inflight EXCEPT !.phase = "patching"]
    \/ /\ inflight.phase = "owned"
       /\ RunsPipeline
       /\ inflight.obj.deletionTimestamp
       /\ \E f \in failSets : ReconcileWith(Input("none", f, NoELB, FALSE, 6443, TRUE))
       /\ inflight' = [inflight EXCEPT !.phase = "closing"]
    \/ /\ inflight.phase = "unregistered"
       /\ ReconcileWith(Input("none", {}, NoELB, FALSE, 6443, FALSE))
       /\ inflight' = [inflight EXCEPT !.phase = "closing"]
    \/ /\ inflight.phase = "registered"
       /\ \E f \in failSets :
             \E ob \in Observations(f, elbs, ports) :
                ReconcileWith(Input("none", f, ob[1], ob[2], ob[3], TRUE))
       /\ inflight' = [inflight EXCEPT !.phase = "closing"]

DoReconcile == ReconcileSeeing(FailSets, ELBObs, Ports)

FairDoReconcile == ReconcileSeeing(FairFailSets, FairELBObs, FairPorts)

\* The first deferred function, clusterScope.Close(), patches the object: one
\* step for each request the patch sends, or one step when it sends none.  When
\* the last request has returned Close returns, and its error becomes the error of
\* the call if there was none.
CloseScope ==
    /\ inflight.phase = "closing"
    /\ LET sent == SentParts(inflight.obj, mem)
           i == NextPart(sent, inflight.part)
       IN  IF i = 0
             THEN /\ result' = Close(result, inflight.ok)
                  /\ inflight' = [inflight EXCEPT !.phase = "patching", !.part = 1, !.ok = TRUE]
                  /\ UNCHANGED awsCluster
           ELSE \E fails \in BOOLEAN :
                   LET r == PatchRequest(awsCluster, inflight.obj, mem, PartOrder[i], fails)
                       ok == inflight.ok /\ r.ok
                   IN  /\ awsCluster' = r.stored
                       /\ IF NextPart(sent, i + 1) = 0
                            THEN /\ result' = Close(result, ok)
                                 /\ inflight' = [inflight EXCEPT !.phase = "patching",
                                                                 !.part = 1, !.ok = TRUE]
                            ELSE /\ result' = result
                                 /\ inflight' = [inflight EXCEPT !.part = i + 1, !.ok = ok]
    /\ UNCHANGED <<calls, seen, mem, eventBridge, rvars>>

\* The second deferred function: helper.Patch patches the object once more, from
\* the copy the helper took when it was made, one step for each request it sends
\* or one step when it sends none; its error is printed.
HelperPatch ==
    /\ inflight.phase = "patching"
    /\ LET sent == SentParts(inflight.obj, mem)
           i == NextPart(sent, inflight.part)
       IN  IF i = 0
             THEN /\ inflight' = [inflight EXCEPT !.phase = "returning", !.part = 1]
                  /\ UNCHANGED awsCluster
           ELSE \E fails \in BOOLEAN :
                   /\ awsCluster' =
                         PatchRequest(awsCluster, inflight.obj, mem, PartOrder[i], fails).stored
                   /\ inflight' = IF NextPart(sent, i + 1) = 0
                                    THEN [inflight EXCEPT !.phase = "returning", !.part = 1]
                                    ELSE [inflight EXCEPT !.part = i + 1]
    /\ UNCHANGED <<calls, result, seen, mem, eventBridge, rvars>>

\* The call hands its result to the controller.
Returns ==
    /\ inflight.phase = "returning"
    /\ inflight' = [Idle EXCEPT !.n = inflight.n]
    /\ UNCHANGED <<awsCluster, calls, result, seen, mem, eventBridge, rvars>>

\* A step of another party while a call is in progress or not.
Elsewhere ==
    /\ IF Deferring THEN UNCHANGED <<calls, result, seen, mem>> ELSE NoReconcile
    /\ UNCHANGED <<inflight, eventBridge, rvars>>

\* The Cluster controller sets the owner reference.
SetOwnerRef ==
    /\ awsCluster.exists /\ ~awsCluster.hasOwner
    /\ awsCluster' = [awsCluster EXCEPT !.hasOwner = TRUE]
    /\ Elsewhere

\* The paused annotation (or the owning Cluster's spec.paused) is set or cleared.
SetPaused ==
    /\ awsCluster.exists
    /\ awsCluster' = [awsCluster EXCEPT !.paused = ~awsCluster.paused]
    /\ Elsewhere

\* A user deletes the object: the store sets the deletion marker, or removes the
\* object at once when it carries no finalizer.
RequestDelete ==
    /\ awsCluster.exists /\ ~awsCluster.deletionTimestamp
    /\ awsCluster' = Persist([awsCluster EXCEPT !.deletionTimestamp = TRUE])
    /\ Elsewhere

Next ==
    Fetch \/ ReadOwner \/ RegisterFinalizer \/ DoReconcile \/ CloseScope \/ HelperPatch
    \/ Returns \/ SetOwnerRef \/ SetPaused \/ RequestDelete

Spec == Init /\ [][Next]_vars

FairInit ==
    /\ awsCluster = NewObject
    /\ eventBridge = TRUE
    /\ calls = <<>>
    /\ result = NoResult
    /\ seen = NotInvoked
    /\ mem = Gone
    /\ inflight = Idle
    /\ request = NoRequest
    /\ reply = NoReply

\* A step of the call in progress.
CallStep ==
    ReadOwner \/ RegisterFinalizer \/ FairDoReconcile \/ CloseScope \/ HelperPatch \/ Returns

FairNext == FetchAgain \/ CallStep \/ SetOwnerRef \/ SetPaused \/ RequestDelete

\* The controller keeps delivering requests for the object, and every call in
\* progress goes on: each of its reads, writes and service calls is answered.
\* Which answers it gets is left open.
FairSpec == FairInit /\ [][FairNext]_vars /\ WF_vars(FetchAgain) /\ WF_vars(CallStep)

----------------------------------------------------------------------------
(* The instance service choosing the subnet of a new instance:            *)
(* Service.findSubnet of pkg/cloud/services/ec2/instances.go.             *)

Filters(list) == [nil |-> FALSE, list |-> list]

\* The subnets EC2 holds, in the order DescribeSubnets lists them.
EC2Subnets ==
    << [id |-> "subnet-7", state |-> "available", vpc |-> "vpc-2", az |-> "z1",
        role |-> "worker"],
       [id |-> "subnet-8", state |-> "unavailable", vpc |-> "vpc-1", az |-> "z1",
        role |-> "worker"],
       [id |-> "subnet-3", state |-> "pending", vpc |-> "vpc-1", az |-> "z3",
        role |-> "worker"],
       [id |-> "subnet-1", state |-> "available", vpc |-> "vpc-1", az |-> "z1",
        role |-> "worker"],
       [id |-> "subnet-4", state |-> "available", vpc |-> "vpc-1", az |-> "z2",
        role |-> "worker"],
       [id |-> "subnet-2", state |-> "available", vpc |-> "vpc-1", az |-> "z2",
        role |-> "edge"] >>

\* What s.scope.Subnets() may hold when findSubnet runs.
SubnetLists ==
    { <<>>,
      Subnets,
      << [id |-> "subnet-2", az |-> "z2", public |-> TRUE] >>,
      << [id |-> "subnet-2", az |-> "z2", public |-> TRUE],
         [id |-> "subnet-4", az |-> "z2", public |-> FALSE],
         [id |-> "subnet-1", az |-> "z1", public |-> FALSE],
         [id |-> "subnet-5", az |-> "z1", public |-> FALSE] >> }

\* The failure domains a Machine or an AWSMachine may name.
FailureDomains == {Nil, "z1", "z2"}

\* AWSMachine.Spec.Subnet.ID: nil, a subnet of the cluster, or an id the cluster
\* network may not hold.
SubnetIDs == {Nil, "subnet-1", "subnet-2", "subnet-9"}

\* AWSMachine.Spec.Subnet.Filters as users write them.
FilterLists ==
    { NilFilters,
      Filters(<<>>),
      Filters(<< [name |-> "tag:role", values |-> <<"worker">>] >>),
      Filters(<< [name |-> "tag:role", values |-> <<"edge", "worker">>] >>),
      Filters(<< [name |-> "tag:role", values |-> <<"infra">>] >>),
      Filters(<< [name |-> "tag:role", values |-> <<"worker">>],
                 [name |-> "availability-zone", values |-> <<"z3">>] >>) }

\* A machine scope as findSubnet reads it, with the cluster's subnets and the
\* answer of EC2 to DescribeSubnets.
MachineScopes ==
    [ machineFD     : FailureDomains,   \* scope.Machine.Spec.FailureDomain
      templateFD    : FailureDomains,   \* scope.AWSMachine.Spec.FailureDomain
      subnetID      : SubnetIDs,        \* scope.AWSMachine.Spec.Subnet.ID
      filters       : FilterLists,      \* scope.AWSMachine.Spec.Subnet.Filters
      external      : BOOLEAN,          \* scope.IsExternallyManaged()
      subnets       : SubnetLists,      \* s.scope.Subnets()
      describeFails : BOOLEAN ]         \* DescribeSubnets returns an error

\* awserrors.NewFailedDependency(message)
NewFailedDependency(msg) == <<"FailedDependency", msg>>

\* awserrors.IsFailedDependency(err)
IsFailedDependency(err) == Len(err) > 0 /\ err[1] = "FailedDependency"

\* Subnets.FindByID(id): the subnets with that id, none when there is no such subnet.
FindByID(subnets, id) == SelectSeq(subnets, LAMBDA s : s.id = id)

\* Subnets.FilterByZone(zone)
FilterByZone(subnets, zone) == SelectSeq(subnets, LAMBDA s : s.az = zone)

\* filter.EC2.SubnetStates(states...)
SubnetStates(states) == [name |-> "state", values |-> states]

\* filter.EC2.AvailabilityZone(zone)
AvailabilityZone(zone) == [name |-> "availability-zone", values |-> <<zone>>]

\* The attribute of a subnet that an EC2 filter name selects.
Attribute(s, name) ==
    CASE name = "state" -> s.state
      [] name = "vpc-id" -> s.vpc
      [] name = "availability-zone" -> s.az
      [] name = "tag:role" -> s.role
      [] OTHER -> Nil

\* EC2 matching one subnet against one filter: any of the filter's values.
Matches(s, f) == \E j \in 1..Len(f.values) : f.values[j] = Attribute(s, f.name)

\* EC2Client.DescribeSubnets: the subnets matching every filter, or an error.
DescribeSubnets(criteria, fails) ==
    IF fails
      THEN [subnets |-> <<>>, err |-> <<"DescribeSubnets">>]
      ELSE [subnets |-> SelectSeq(EC2Subnets,
                           LAMBDA s : \A i \in 1..Len(criteria) : Matches(s, criteria[i])),
            err |-> NoError]

\* Service.getFilteredSubnets
getFilteredSubnets(criteria, fails) == DescribeSubnets(criteria, fails)

\* The failure domain taken from the AWSMachine first and from the Machine second.
failureDomainOfTemplateFirst(scope) ==
    IF scope.templateFD = Nil THEN scope.machineFD ELSE scope.templateFD

\* findSubnet, lines 258-261: the Machine's failure domain, else the AWSMachine's.
failureDomainOf(scope) ==
    IF scope.machineFD = Nil THEN scope.templateFD ELSE scope.machineFD

\* findSubnet's first case without the comparison of the subnet's availability zone
\* with the failure domain.
subnetByIDAnyZone(scope, failureDomain) ==
    LET found == FindByID(scope.subnets, scope.subnetID)
    IN  IF failureDomain # Nil /\ found = <<>>
          THEN [id |-> "", err |-> NewFailedDependency("subnet with id not found"),
                query |-> NoQuery, event |-> "FailedCreate"]
          ELSE [id |-> scope.subnetID, err |-> NoError, query |-> NoQuery,
                event |-> "none"]

\* findSubnet, first case: the subnet id of the machine spec.
subnetByID(scope, failureDomain) ==
    LET found == FindByID(scope.subnets, scope.subnetID)
        ok == [id |-> scope.subnetID, err |-> NoError, query |-> NoQuery,
               event |-> "none"]
    IN  IF failureDomain # Nil
          THEN IF found = <<>>
                 THEN [id |-> "", err |-> NewFailedDependency("subnet with id not found"),
                       query |-> NoQuery, event |-> "FailedCreate"]
                 ELSE IF found[1].az # failureDomain
                        THEN [id |-> "",
                              err |-> NewFailedDependency(
                                  "availability zone does not match with the failure domain"),
                              query |-> NoQuery, event |-> "FailedCreate"]
                        ELSE ok
          ELSE ok

\* findSubnet, second case: the criteria handed to DescribeSubnets.
subnetCriteria(scope, failureDomain) ==
    << SubnetStates(<<"pending", "available">>) >>
        \o (IF ~scope.external THEN << VPC(ClusterVPC) >> ELSE <<>>)
        \o (IF failureDomain # Nil THEN << AvailabilityZone(failureDomain) >> ELSE <<>>)
        \o scope.filters.list

\* findSubnet, second case: the subnet filters of the machine spec.
subnetByFilters(scope, failureDomain) ==
    LET criteria == subnetCriteria(scope, failureDomain)
        out == getFilteredSubnets(criteria, scope.describeFails)
    IN  IF out.err # NoError
          THEN [id |-> "", err |-> Wrap(out.err, "failed to filter subnets for criteria"),
                query |-> criteria, event |-> "none"]
          ELSE IF Len(out.subnets) = 0
                 THEN [id |-> "",
                       err |-> NewFailedDependency("no subnets available matching filters"),
                       query |-> criteria, event |-> "FailedCreate"]
                 ELSE [id |-> out.subnets[1].id, err |-> NoError, query |-> criteria,
                       event |-> "none"]

\* findSubnet's third case taking public subnets of the failure domain as well.
subnetByZoneAnySubnet(scope, failureDomain) ==
    LET subnets == FilterByZone(scope.subnets, failureDomain)
    IN  IF Len(subnets) = 0
          THEN [id |-> "",
                err |-> NewFailedDependency("no subnets available in availability zone"),
                query |-> NoQuery, event |-> "FailedCreate"]
          ELSE [id |-> subnets[1].id, err |-> NoError, query |-> NoQuery,
                event |-> "none"]

\* findSubnet, third case: the private subnets of the failure domain.
subnetByZone(scope, failureDomain) ==
    LET subnets == FilterByZone(FilterPrivate(scope.subnets), failureDomain)
    IN  IF Len(subnets) = 0
          THEN [id |-> "",
                err |-> NewFailedDependency("no subnets available in availability zone"),
                query |-> NoQuery, event |-> "FailedCreate"]
          ELSE [id |-> subnets[1].id, err |-> NoError, query |-> NoQuery,
                event |-> "none"]

\* findSubnet, default case: the first private subnet.
subnetDefault(scope) ==
    LET sns == FilterPrivate(scope.subnets)
    IN  IF Len(sns) = 0
          THEN [id |-> "", err |-> NewFailedDependency("no subnets available"),
                query |-> NoQuery, event |-> "FailedCreateInstance"]
          ELSE [id |-> sns[1].id, err |-> NoError, query |-> NoQuery, event |-> "none"]

\* findSubnet going on to the later cases when the filters of the machine spec
\* match no subnet.
findSubnetFallsThrough(scope) ==
    LET failureDomain == failureDomainOf(scope)
        filtered == subnetByFilters(scope, failureDomain)
    IN  CASE scope.subnetID # Nil -> subnetByID(scope, failureDomain)
          [] scope.subnetID = Nil /\ ~scope.filters.nil
                /\ ~IsFailedDependency(filtered.err) -> filtered
          [] scope.subnetID = Nil /\ (scope.filters.nil \/ IsFailedDependency(filtered.err))
                /\ failureDomain # Nil -> subnetByZone(scope, failureDomain)
          [] OTHER -> subnetDefault(scope)

\* Service.findSubnet: the subnet id and the error it returns, with the criteria
\* of the query it issued and the event it recorded.
findSubnet(scope) ==
    LET failureDomain == failureDomainOf(scope)
    IN  CASE scope.subnetID # Nil -> subnetByID(scope, failureDomain)
          [] scope.subnetID = Nil /\ ~scope.filters.nil ->
                subnetByFilters(scope, failureDomain)
          [] scope.subnetID = Nil /\ scope.filters.nil /\ failureDomain # Nil ->
                subnetByZone(scope, failureDomain)
          [] OTHER -> subnetDefault(scope)

SubnetInit ==
    /\ awsCluster = NewObject
    /\ eventBridge = FALSE
    /\ calls = <<>>
    /\ result = NoResult
    /\ seen = NotInvoked
    /\ mem = Gone
    /\ inflight = Idle
    /\ request \in MachineScopes
    /\ reply = NoReply

\* One call of findSubnet for the machine scope at hand.
FindSubnet ==
    /\ reply = NoReply
    /\ reply' = findSubnet(request)
    /\ UNCHANGED <<request, cvars>>

SubnetNext == FindSubnet

SubnetSpec == SubnetInit /\ [][SubnetNext]_vars

----------------------------------------------------------------------------
(* The instance service resolving the core security groups of a machine:   *)
(* Service.GetCoreSecurityGroups of pkg/cloud/services/ec2/instances.go.   *)

\* infrav1.SecurityGroupNode, SecurityGroupLB, SecurityGroupControlPlane and
\* SecurityGroupEKSNodeAdditional.
SecurityGroupNode == "node"

SecurityGroupLB == "lb"

SecurityGroupControlPlane == "controlplane"

SecurityGroupEKSNodeAdditional == "node-eks-additional"

SecurityGroupRoles ==
    {SecurityGroupNode, SecurityGroupLB, SecurityGroupControlPlane,
     SecurityGroupEKSNodeAdditional}

\* The id of the security group of a role; a role whose group has not been
\* created yet is not a key of s.scope.SecurityGroups().
GroupOfRole(sg) == "sg-" \o sg

\* s.scope.SecurityGroups(): the roles that have a group, each with its id.
SecurityGroupMaps ==
    {[sg \in present |-> GroupOfRole(sg)] : present \in SUBSET SecurityGroupRoles}

\* scope.Role()
MachineRoles == {"node", "control-plane", "bastion", ""}

\* A machine scope as GetCoreSecurityGroups reads it, with the security groups
\* of the cluster.
RoleScopes ==
    [ external       : BOOLEAN,             \* scope.IsExternallyManaged()
      eks            : BOOLEAN,             \* scope.IsEKSManaged()
      role           : MachineRoles,        \* scope.Role()
      securityGroups : SecurityGroupMaps ]  \* s.scope.SecurityGroups()

\* The roles of GetCoreSecurityGroups with the load balancer's group for every
\* cluster.
coreRolesAlwaysLB(scope) ==
    << SecurityGroupNode, SecurityGroupLB >>
        \o (CASE scope.role = "node" ->
                    IF scope.eks THEN << SecurityGroupEKSNodeAdditional >> ELSE <<>>
              [] scope.role = "control-plane" -> << SecurityGroupControlPlane >>
              [] OTHER -> <<>>)

\* GetCoreSecurityGroups: the roles whose groups a machine of a known role gets.
coreRoles(scope) ==
    << SecurityGroupNode >>
        \o (IF ~scope.eks THEN << SecurityGroupLB >> ELSE <<>>)
        \o (CASE scope.role = "node" ->
                    IF scope.eks THEN << SecurityGroupEKSNodeAdditional >> ELSE <<>>
              [] scope.role = "control-plane" -> << SecurityGroupControlPlane >>
              [] OTHER -> <<>>)

\* GetCoreSecurityGroups, the loop over sgRoles from the i-th role on: ids are the
\* ids collected so far.
RECURSIVE lookupRoles(_, _, _, _)
lookupRoles(i, sgRoles, groups, ids) ==
    IF i > Len(sgRoles) THEN [ids |-> ids, err |-> NoError]
    ELSE IF sgRoles[i] \notin DOMAIN groups
      THEN [ids |-> <<>>,
            err |-> NewFailedDependency(sgRoles[i] \o " security group not available")]
    ELSE lookupRoles(i + 1, sgRoles, groups, Append(ids, groups[sgRoles[i]]))

\* GetCoreSecurityGroups looking the common groups up before it tells the role.
GetCoreSecurityGroupsLookupFirst(scope) ==
    LET common == lookupRoles(1, << SecurityGroupNode >>, scope.securityGroups, <<>>)
    IN  IF scope.external THEN [ids |-> <<>>, err |-> NoError]
        ELSE IF common.err # NoError THEN common
        ELSE IF scope.role \notin {"node", "control-plane"}
          THEN [ids |-> <<>>, err |-> <<"Unknown node role">>]
        ELSE lookupRoles(1, coreRoles(scope), scope.securityGroups, <<>>)

\* Service.GetCoreSecurityGroups
GetCoreSecurityGroups(scope) ==
    IF scope.external THEN [ids |-> <<>>, err |-> NoError]
    ELSE IF scope.role \notin {"node", "control-plane"}
      THEN [ids |-> <<>>, err |-> <<"Unknown node role">>]
    ELSE lookupRoles(1, coreRoles(scope), scope.securityGroups, <<>>)

RoleInit ==
    /\ awsCluster = NewObject
    /\ eventBridge = FALSE
    /\ calls = <<>>
    /\ result = NoResult
    /\ seen = NotInvoked
    /\ mem = Gone
    /\ inflight = Idle
    /\ request \in RoleScopes
    /\ reply = NoReply

\* One call of GetCoreSecurityGroups for the machine scope at hand.
ResolveGroups ==
    /\ reply = NoReply
    /\ reply' = GetCoreSecurityGroups(request)
    /\ UNCHANGED <<request, cvars>>

RoleNext == ResolveGroups

RoleSpec == RoleInit /\ [][RoleNext]_vars

----------------------------------------------------------------------------
(* The instance service changing an instance that exists: the security     *)
(* groups of its network interfaces and its tags.                          *)

\* The group lists a caller may hand to UpdateInstanceSecurityGroups or to
\* DetachSecurityGroupsFromNetworkInterface.
GivenGroups ==
    {<<>>, <<"sg-1">>, <<"sg-1", "sg-2">>, <<"sg-2", "sg-3">>, <<"sg-3", "sg-1">>,
     <<"sg-3", "sg-3">>}

\* The groups AWS may hold for one network interface, in the order
\* getNetworkInterfaceSecurityGroups lists them.
HeldGroups ==
    {<<>>, <<"sg-1">>, <<"sg-3">>, <<"sg-1", "sg-2">>, <<"sg-2", "sg-1">>,
     <<"sg-3", "sg-1", "sg-2">>}

\* DetachSecurityGroupsFromNetworkInterface, the loop over groups from the i-th on.
RECURSIVE filterFrom(_, _, _)
filterFrom(i, groups, remainingGroups) ==
    IF i > Len(groups) THEN remainingGroups
    ELSE filterFrom(i + 1, groups, filterGroups(remainingGroups, groups[i]))

\* DetachSecurityGroupsFromNetworkInterface, had it skipped the modify call when
\* the interface holds none of the given groups.
DetachSecurityGroupsWhenHeld(groups, existingGroups, fail) ==
    LET remainingGroups == filterFrom(1, groups, existingGroups)
        modify == Mutation("ModifyNetworkInterfaceAttribute", fail)
    IN  IF fail = "DescribeNetworkInterfaceAttribute"
          THEN [groups |-> existingGroups, issued |-> <<>>, sent |-> <<>>,
                err |-> <<"failed to look up network interface security groups",
                          "DescribeNetworkInterfaceAttribute">>]
        ELSE IF remainingGroups = existingGroups
          THEN [groups |-> existingGroups, issued |-> <<>>, sent |-> <<>>, err |-> NoError]
        ELSE IF ~modify.ok
          THEN [groups |-> existingGroups, issued |-> <<modify>>,
                sent |-> <<remainingGroups>>,
                err |-> <<"failed to modify interface", modify.op>>]
        ELSE [groups |-> remainingGroups, issued |-> <<modify>>,
              sent |-> <<remainingGroups>>, err |-> NoError]

\* DetachSecurityGroupsFromNetworkInterface(groups, interfaceID): existingGroups is
\* what getNetworkInterfaceSecurityGroups returns for the interface.
DetachSecurityGroupsFromNetworkInterface(groups, existingGroups, fail) ==
    LET remainingGroups == filterFrom(1, groups, existingGroups)
        modify == Mutation("ModifyNetworkInterfaceAttribute", fail)
    IN  IF fail = "DescribeNetworkInterfaceAttribute"
          THEN [groups |-> existingGroups, issued |-> <<>>, sent |-> <<>>,
                err |-> <<"failed to look up network interface security groups",
                          "DescribeNetworkInterfaceAttribute">>]
        ELSE IF ~modify.ok
          THEN [groups |-> existingGroups, issued |-> <<modify>>,
                sent |-> <<remainingGroups>>,
                err |-> <<"failed to modify interface", modify.op>>]
        ELSE [groups |-> remainingGroups, issued |-> <<modify>>,
              sent |-> <<remainingGroups>>, err |-> NoError]

\* What a caller may ask: the groups to attach to every interface of the instance,
\* the groups to detach from one interface, or the tags to create and to remove.
AttachRequests ==
    [ op       : {"UpdateInstanceSecurityGroups"},
      ids      : GivenGroups,
      attached : [ENISet -> HeldGroups],
      fail     : {"none", "DescribeNetworkInterfaces", "DescribeNetworkInterfaceAttribute",
                  "ModifyNetworkInterfaceAttribute"} ]

DetachRequests ==
    [ op       : {"DetachSecurityGroupsFromNetworkInterface"},
      groups   : GivenGroups,
      existing : HeldGroups,
      fail     : {"none", "DescribeNetworkInterfaceAttribute", "ModifyNetworkInterfaceAttribute"} ]

TagRequests ==
    [ op     : {"UpdateResourceTags"},
      tags   : TagMaps,
      create : TagMaps,
      remove : TagMaps,
      fail   : {"none", "CreateTags", "DeleteTags"} ]

ChangeInit ==
    /\ awsCluster = NewObject
    /\ eventBridge = FALSE
    /\ calls = <<>>
    /\ result = NoResult
    /\ seen = NotInvoked
    /\ mem = Gone
    /\ inflight = Idle
    /\ request \in AttachRequests \cup DetachRequests \cup TagRequests
    /\ reply = NoReply

\* One call of UpdateInstanceSecurityGroups.
UpdateGroups ==
    /\ reply = NoReply
    /\ request.op = "UpdateInstanceSecurityGroups"
    /\ reply' = UpdateInstanceSecurityGroups(request.ids, request.attached, request.fail)
    /\ UNCHANGED <<request, cvars>>

\* One call of DetachSecurityGroupsFromNetworkInterface.
DetachGroups ==
    /\ reply = NoReply
    /\ request.op = "DetachSecurityGroupsFromNetworkInterface"
    /\ reply' = DetachSecurityGroupsFromNetworkInterface(request.groups, request.existing,
                                                         request.fail)
    /\ UNCHANGED <<request, cvars>>

\* One call of UpdateResourceTags.
UpdateTags ==
    /\ reply = NoReply
    /\ request.op = "UpdateResourceTags"
    /\ reply' = UpdateResourceTags(request.tags, request.create, request.remove,
                                   request.fail)
    /\ UNCHANGED <<request, cvars>>

ChangeNext == UpdateGroups \/ DetachGroups \/ UpdateTags

ChangeSpec == ChangeInit /\ [][ChangeNext]_vars

----------------------------------------------------------------------------
(* The instance service creating an instance: Service.runInstance of       *)
(* pkg/cloud/services/ec2/instances.go with the helpers it calls.          *)

\* A nil *infrav1.Volume, *infrav1.SpotMarketOptions, *ec2.InstanceMarketOptionsRequest
\* and *ec2.RunInstancesInput.
NoVolume == [nil |-> TRUE]

NoSpot == [nil |-> TRUE]

NoMarketOptions == [nil |-> TRUE]

NoInput == [nil |-> TRUE]

\* The image of the instance as DescribeImages shows it: the name of its root
\* device and the size of the snapshot behind it.
Image == [rootDeviceName |-> "/dev/sda1", snapshotSize |-> 20]

\* AWSMachine.Spec.RootVolume
RootVolumes ==
    { NoVolume,
      [nil |-> FALSE, size |-> 10, iops |-> 0, encryptionKey |-> "", type |-> "",
       encrypted |-> FALSE],
      [nil |-> FALSE, size |-> 20, iops |-> 0, encryptionKey |-> "", type |-> "gp2",
       encrypted |-> TRUE],
      [nil |-> FALSE, size |-> 25, iops |-> 3000, encryptionKey |-> "key-1", type |-> "io1",
       encrypted |-> FALSE] }

\* AWSMachine.Spec.NonRootVolumes
NonRootVolumeLists ==
    { <<>>,
      << [deviceName |-> "/dev/sdb", size |-> 8, iops |-> 0, encryptionKey |-> "",
          type |-> "", encrypted |-> FALSE] >>,
      << [deviceName |-> "", size |-> 8, iops |-> 100, encryptionKey |-> "key-1",
          type |-> "io1", encrypted |-> FALSE] >> }

\* AWSMachine.Spec.SpotMarketOptions: nil, or options with a MaxPrice that is nil,
\* empty or a price.
SpotOptions ==
    {NoSpot} \cup [nil : {FALSE}, maxPrice : {Nil, "", "0.05", "1.5"}]

\* AWSMachine.Spec.NetworkInterfaces
InterfaceLists == {<<>>, <<"eni-1">>, <<"eni-2", "eni-1">>}

\* The keys of a tag map as sort.Strings orders them.
SortedTagKeys == <<"Name", "role">>

\* The infrav1.Instance CreateInstance hands to runInstance.
InstanceInputs ==
    [ type              : {"t3.large"},
      imageID           : {"ami-1"},
      sshKeyName        : {"default"},
      userData          : {"userdata"},
      networkInterfaces : InterfaceLists,
      subnetID          : {"subnet-1"},
      securityGroupIDs  : {<<>>, <<"sg-1", "sg-2">>},
      iamProfile        : {"", "nodes.profile"},
      rootVolume        : RootVolumes,
      nonRootVolumes    : NonRootVolumeLists,
      tags              : {NoMachine.tags, [Name |-> "v1", role |-> "v2"]},
      spotMarketOptions : SpotOptions,
      tenancy           : {"", "dedicated"} ]

\* The EC2 call of runInstance that does not give what is asked of it: an error,
\* or an answer without image or without instance.
RunFaults ==
    {"none", "getImageRootDevice", "getImageSnapshotSize", "NoImages", "RunInstances",
     "NoInstances", "WaitUntilInstanceRunning"}

\* Service.getImageRootDevice(imageID)
getImageRootDevice(fail) ==
    IF fail = "getImageRootDevice"
      THEN [name |-> Nil, err |-> <<"DescribeImages">>]
    ELSE IF fail = "NoImages"
      THEN [name |-> Nil, err |-> <<"no images returned when looking up ID">>]
    ELSE [name |-> Image.rootDeviceName, err |-> NoError]

\* Service.getImageSnapshotSize(imageID)
getImageSnapshotSize(fail) ==
    IF fail = "getImageSnapshotSize"
      THEN [size |-> 0, err |-> <<"DescribeImages">>]
    ELSE IF fail = "NoImages"
      THEN [size |-> 0, err |-> <<"no images returned when looking up ID">>]
    ELSE [size |-> Image.snapshotSize, err |-> NoError]

\* checkRootVolume without the comparison of the volume size with the snapshot size.
checkRootVolumeAnySize(rootVolume, fail) ==
    LET rootDeviceName == getImageRootDevice(fail)
        snapshotSize == getImageSnapshotSize(fail)
    IN  IF rootDeviceName.err # NoError
          THEN [name |-> Nil, calls |-> <<"DescribeImages">>,
                err |-> Wrap(rootDeviceName.err, "failed to get root volume from image")]
        ELSE IF snapshotSize.err # NoError
          THEN [name |-> Nil, calls |-> <<"DescribeImages", "DescribeImages">>,
                err |-> Wrap(snapshotSize.err, "failed to get root volume from image")]
        ELSE [name |-> rootDeviceName.name, calls |-> <<"DescribeImages", "DescribeImages">>,
              err |-> NoError]

\* Service.checkRootVolume(rootVolume, imageID): the root device name of the image,
\* the EC2 calls made and the error.
checkRootVolume(rootVolume, fail) ==
    LET rootDeviceName == getImageRootDevice(fail)
        snapshotSize == getImageSnapshotSize(fail)
    IN  IF rootDeviceName.err # NoError
          THEN [name |-> Nil, calls |-> <<"DescribeImages">>,
                err |-> Wrap(rootDeviceName.err, "failed to get root volume from image")]
        ELSE IF snapshotSize.err # NoError
          THEN [name |-> Nil, calls |-> <<"DescribeImages", "DescribeImages">>,
                err |-> Wrap(snapshotSize.err, "failed to get root volume from image")]
        ELSE IF rootVolume.size < snapshotSize.size
          THEN [name |-> Nil, calls |-> <<"DescribeImages", "DescribeImages">>,
                err |-> <<"root volume size must be greater than or equal to snapshot size">>]
        ELSE [name |-> rootDeviceName.name, calls |-> <<"DescribeImages", "DescribeImages">>,
              err |-> NoError]

\* getInstanceMarketOptionsRequest, had it passed on every max price that is set,
\* the empty one too.
getInstanceMarketOptionsRequestAnyPrice(spotMarketOptions) ==
    IF spotMarketOptions.nil THEN NoMarketOptions
    ELSE [ nil |-> FALSE,
           marketType |-> "spot",
           spotOptions |->
               [ instanceInterruptionBehavior |-> "terminate",
                 spotInstanceType |-> "one-time",
                 maxPrice |-> spotMarketOptions.maxPrice ] ]

\* getInstanceMarketOptionsRequest(spotMarketOptions)
getInstanceMarketOptionsRequest(spotMarketOptions) ==
    IF spotMarketOptions.nil THEN NoMarketOptions
    ELSE [ nil |-> FALSE,
           marketType |-> "spot",
           spotOptions |->
               [ instanceInterruptionBehavior |-> "terminate",
                 spotInstanceType |-> "one-time",
                 maxPrice |-> IF spotMarketOptions.maxPrice # Nil
                                    /\ spotMarketOptions.maxPrice # ""
                                THEN spotMarketOptions.maxPrice
                                ELSE Nil ] ]

\* runInstance: the ec2.EbsBlockDevice of a volume; Iops 0 is an Iops left unset.
ebsDevice(volume) ==
    [ deleteOnTermination |-> TRUE,
      volumeSize |-> volume.size,
      encrypted |-> volume.encrypted \/ volume.encryptionKey # "",
      iops |-> volume.iops,
      kmsKeyId |-> IF volume.encryptionKey # "" THEN volume.encryptionKey ELSE Nil,
      volumeType |-> IF volume.type # "" THEN volume.type ELSE Nil ]

\* networkOf with the subnet id and the security group ids always set.
networkOfWithSubnet(i) ==
    [ networkInterfaces |->
          [index \in 1..Len(i.networkInterfaces) |->
              [networkInterfaceId |-> i.networkInterfaces[index],
               deviceIndex |-> index - 1]],
      subnetId |-> i.subnetID,
      securityGroupIds |-> i.securityGroupIDs ]

\* runInstance: the network part of the request, either the interfaces of the
\* instance spec or the subnet with the security groups.
networkOf(i) ==
    IF Len(i.networkInterfaces) > 0
      THEN [ networkInterfaces |->
                 [index \in 1..Len(i.networkInterfaces) |->
                     [networkInterfaceId |-> i.networkInterfaces[index],
                      deviceIndex |-> index - 1]],
             subnetId |-> Nil,
             securityGroupIds |-> <<>> ]
      ELSE [ networkInterfaces |-> <<>>,
             subnetId |-> i.subnetID,
             securityGroupIds |-> i.securityGroupIDs ]

\* runInstance: the tag specification of the instance, its tags sorted by key; no
\* specification for an instance without tags.
tagSpecifications(tags) ==
    LET keys == SelectSeq(SortedTagKeys, LAMBDA key : tags[key] # NoTag)
    IN  IF HasTags(tags)
          THEN << [k \in 1..Len(keys) |-> [key |-> keys[k], value |-> tags[keys[k]]]] >>
          ELSE <<>>

\* runInstance: the ec2.RunInstancesInput built from the instance spec i, with
\* the block device mappings given.
RunInstancesInput(i, blockDeviceMappings) ==
    LET network == networkOf(i)
    IN  [ nil |-> FALSE,
          instanceType |-> i.type,
          imageId |-> i.imageID,
          keyName |-> i.sshKeyName,
          userData |-> i.userData,
          minCount |-> 1,
          maxCount |-> 1,
          networkInterfaces |-> network.networkInterfaces,
          subnetId |-> network.subnetId,
          securityGroupIds |-> network.securityGroupIds,
          iamInstanceProfile |-> IF i.iamProfile # "" THEN i.iamProfile ELSE Nil,
          blockDeviceMappings |-> blockDeviceMappings,
          tagSpecifications |-> tagSpecifications(i.tags),
          instanceMarketOptions |-> getInstanceMarketOptionsRequest(i.spotMarketOptions),
          placement |-> IF i.tenancy # "" THEN i.tenancy ELSE Nil ]

\* The instance EC2 reports for a request it accepted.
Reserved(input) ==
    [ instanceId |-> "i-1", state |-> "pending", instanceType |-> input.instanceType,
      subnetId |-> input.subnetId, imageId |-> input.imageId, keyName |-> input.keyName ]

\* runWith with a failed wait for the running state returned as an error.
runWithWaitFatal(input, done, fail) ==
    IF fail = "RunInstances"
      THEN [instance |-> NilInstance, input |-> input, calls |-> Append(done, "RunInstances"),
            logged |-> <<>>, err |-> Wrap(<<"RunInstances">>, "failed to run instance")]
    ELSE IF fail = "NoInstances"
      THEN [instance |-> NilInstance, input |-> input, calls |-> Append(done, "RunInstances"),
            logged |-> <<>>, err |-> <<"no instance returned for reservation">>]
    ELSE IF fail = "WaitUntilInstanceRunning"
      THEN [instance |-> NilInstance, input |-> input,
            calls |-> done \o <<"RunInstances", "WaitUntilInstanceRunning">>,
            logged |-> <<>>, err |-> <<"WaitUntilInstanceRunning">>]
    ELSE [instance |-> SDKToInstance(Reserved(input)), input |-> input,
          calls |-> done \o <<"RunInstances", "WaitUntilInstanceRunning">>,
          logged |-> <<>>, err |-> NoError]

\* runInstance from the RunInstances call on: done are the EC2 calls made before.
\* A wait for the running state that fails is logged and nothing more.
runWith(input, done, fail) ==
    IF fail = "RunInstances"
      THEN [instance |-> NilInstance, input |-> input, calls |-> Append(done, "RunInstances"),
            logged |-> <<>>, err |-> Wrap(<<"RunInstances">>, "failed to run instance")]
    ELSE IF fail = "NoInstances"
      THEN [instance |-> NilInstance, input |-> input, calls |-> Append(done, "RunInstances"),
            logged |-> <<>>, err |-> <<"no instance returned for reservation">>]
    ELSE [instance |-> SDKToInstance(Reserved(input)), input |-> input,
          calls |-> done \o <<"RunInstances", "WaitUntilInstanceRunning">>,
          logged |-> IF fail = "WaitUntilInstanceRunning"
                       THEN <<"Could not determine if Machine is running">>
                       ELSE <<>>,
          err |-> NoError]

\* Service.runInstance(role, i): the instance and the error it returns, with the
\* request it sent to RunInstances and the EC2 calls it made.
runInstance(i, fail) ==
    LET root == IF i.rootVolume.nil
                  THEN [name |-> Nil, calls |-> <<>>, err |-> NoError]
                  ELSE checkRootVolume(i.rootVolume, fail)
        rootMapping ==
            IF i.rootVolume.nil THEN <<>>
            ELSE << [deviceName |-> root.name, ebs |-> ebsDevice(i.rootVolume)] >>
        nonRootMappings ==
            [vi \in 1..Len(i.nonRootVolumes) |->
                [deviceName |-> i.nonRootVolumes[vi].deviceName,
                 ebs |-> ebsDevice(i.nonRootVolumes[vi])]]
    IN  IF root.err # NoError
          THEN [instance |-> NilInstance, input |-> NoInput, calls |-> root.calls,
                logged |-> <<>>, err |-> root.err]
        ELSE IF \E vi \in 1..Len(i.nonRootVolumes) : i.nonRootVolumes[vi].deviceName = ""
          THEN [instance |-> NilInstance, input |-> NoInput, calls |-> root.calls,
                logged |-> <<>>,
                err |-> <<"non root volume should have device name specified">>]
        ELSE runWith(RunInstancesInput(i, rootMapping \o nonRootMappings), root.calls, fail)

\* What runInstance is asked: the instance spec and the answers of EC2.
RunRequests == [i : InstanceInputs, fail : RunFaults]

CreateInit ==
    /\ awsCluster = NewObject
    /\ eventBridge = FALSE
    /\ calls = <<>>
    /\ result = NoResult
    /\ seen = NotInvoked
    /\ mem = Gone
    /\ inflight = Idle
    /\ request \in RunRequests
    /\ reply = NoReply

\* One call of runInstance.
RunInstance ==
    /\ reply = NoReply
    /\ reply' = runInstance(request.i, request.fail)
    /\ UNCHANGED <<request, cvars>>

CreateNext == RunInstance

CreateSpec == CreateInit /\ [][CreateNext]_vars

----------------------------------------------------------------------------
(* Looking an instance up: GetRunningInstanceByTags and InstanceIfExists.   *)

\* The instances EC2 may report.
EC2Instances ==
    { [instanceId |-> "i-1", state |-> "pending", instanceType |-> "t3.large",
       subnetId |-> "subnet-1", imageId |-> "ami-1", keyName |-> "default"],
      [instanceId |-> "i-2", state |-> "running", instanceType |-> "t3.large",
       subnetId |-> Nil, imageId |-> "ami-1", keyName |-> "default"],
      [instanceId |-> "i-3", state |-> "running", instanceType |-> "m5.large",
       subnetId |-> "subnet-2", imageId |-> "ami-2", keyName |-> ""] }

\* The instances of one reservation, and the reservations of one answer.
InstanceLists ==
    {<<>>} \cup {<<v>> : v \in EC2Instances}
           \cup {<<v, w>> : v \in EC2Instances, w \in {x \in EC2Instances : x.state = "running"}}

ReservationLists ==
    {<<>>} \cup {<<r>> : r \in InstanceLists}
           \cup {<<r, q>> : r \in InstanceLists,
                            q \in {<<>>} \cup {<<v>> : v \in EC2Instances}}

\* The errors of DescribeInstances: none, not found, and another failure.
DescribeErrors == {NoError, <<"NotFound">>, <<"RequestLimitExceeded">>}

\* The id InstanceIfExists is given: nil or the id of an instance.
InstanceIDs == {Nil, "i-1"}

\* Service.InstanceIfExists(id)
InstanceIfExists(id, reservations, err) ==
    IF id = Nil
      THEN [instance |-> NilInstance, err |-> NoError, query |-> <<>>, event |-> "none"]
    ELSE IF IsNotFound(err)
      THEN [instance |-> NilInstance, err |-> NoError, query |-> <<id>>, event |-> "none"]
    ELSE IF err # NoError
      THEN [instance |-> NilInstance, err |-> Wrap(err, "failed to describe instance"),
            query |-> <<id>>, event |-> "FailedDescribeInstances"]
    ELSE IF Len(reservations) > 0 /\ Len(reservations[1]) > 0
      THEN [instance |-> SDKToInstance(reservations[1][1]), err |-> NoError,
            query |-> <<id>>, event |-> "none"]
    ELSE [instance |-> NilInstance, err |-> NoError, query |-> <<id>>, event |-> "none"]

\* What a lookup is asked: by tags or by id, and the answer of EC2.
FindRequests ==
    [op : {"tags"}, id : {Nil}, reservations : ReservationLists, err : DescribeErrors]
    \cup [op : {"id"}, id : InstanceIDs, reservations : ReservationLists,
          err : DescribeErrors]

FindInit ==
    /\ awsCluster = NewObject
    /\ eventBridge = FALSE
    /\ calls = <<>>
    /\ result = NoResult
    /\ seen = NotInvoked
    /\ mem = Gone
    /\ inflight = Idle
    /\ request \in FindRequests
    /\ reply = NoReply

\* One call of GetRunningInstanceByTags.
LookupByTags ==
    /\ reply = NoReply
    /\ request.op = "tags"
    /\ reply' = GetRunningInstanceByTags(request.reservations, request.err)
    /\ UNCHANGED <<request, cvars>>

\* One call of InstanceIfExists.
LookupByID ==
    /\ reply = NoReply
    /\ request.op = "id"
    /\ reply' = InstanceIfExists(request.id, request.reservations, request.err)
    /\ UNCHANGED <<request, cvars>>

FindNext == LookupByTags \/ LookupByID

FindSpec == FindInit /\ [][FindNext]_vars

----------------------------------------------------------------------------
(* Terminating an instance: TerminateInstance and TerminateInstanceAndWait. *)

\* The ids of the instances to terminate and the states EC2 holds them in.
TerminateIDs == {"i-1", "i-2", "i-3"}

LiveStates == {"pending", "running", "stopping", "stopped"}

\* The answers of TerminateInstances and of WaitUntilInstanceTerminated: "none"
\* is success; a wait that ends without the terminated state is ResourceNotReady.
TerminateFaults == {"none", "InvalidInstanceID.NotFound", "UnauthorizedOperation"}

WaitFaults == {"none", "ResourceNotReady", "RequestLimitExceeded"}

\* Service.TerminateInstance(instanceID): the error, the EC2 calls made and the
\* state EC2 holds the instance in afterwards.
TerminateInstance(instanceID, state, terminate) ==
    IF terminate # "none"
      THEN [err |-> Wrap(<<terminate>>, "failed to terminate instance with id"),
            calls |-> <<"TerminateInstances">>, id |-> instanceID, state |-> state]
      ELSE [err |-> NoError, calls |-> <<"TerminateInstances">>, id |-> instanceID,
            state |-> "shutting-down"]

\* TerminateInstanceAndWait returning once the terminate call was accepted.
TerminateInstanceWithoutWait(instanceID, state, terminate, wait) ==
    TerminateInstance(instanceID, state, terminate)

\* Service.TerminateInstanceAndWait(instanceID)
TerminateInstanceAndWait(instanceID, state, terminate, wait) ==
    LET terminated == TerminateInstance(instanceID, state, terminate)
    IN  IF terminated.err # NoError THEN terminated
        ELSE IF wait # "none"
          THEN [err |-> Wrap(<<wait>>, "failed to wait for instance termination"),
                calls |-> Append(terminated.calls, "WaitUntilInstanceTerminated"),
                id |-> instanceID, state |-> terminated.state]
        ELSE [err |-> NoError,
              calls |-> Append(terminated.calls, "WaitUntilInstanceTerminated"),
              id |-> instanceID, state |-> "terminated"]

\* What a termination is asked: with or without the wait, the instance, and the
\* answers of EC2.
TerminateRequests ==
    [op : {"terminate", "terminateAndWait"}, id : TerminateIDs, state : LiveStates,
     terminate : TerminateFaults, wait : WaitFaults]

TerminateInit ==
    /\ awsCluster = NewObject
    /\ eventBridge = FALSE
    /\ calls = <<>>
    /\ result = NoResult
    /\ seen = NotInvoked
    /\ mem = Gone
    /\ inflight = Idle
    /\ request \in TerminateRequests
    /\ reply = NoReply

\* One call of TerminateInstance.
Terminate ==
    /\ reply = NoReply
    /\ request.op = "terminate"
    /\ reply' = TerminateInstance(request.id, request.state, request.terminate)
    /\ UNCHANGED <<request, cvars>>

\* One call of TerminateInstanceAndWait.
TerminateAndWait ==
    /\ reply = NoReply
    /\ request.op = "terminateAndWait"
    /\ reply' = TerminateInstanceAndWait(request.id, request.state, request.terminate,
                                         request.wait)
    /\ UNCHANGED <<request, cvars>>

TerminateNext == Terminate \/ TerminateAndWait

TerminateSpec == TerminateInit /\ [][TerminateNext]_vars

----------------------------------------------------------------------------
(* Creating an instance for a machine: CreateInstance.                      *)

\* The key name used when neither the machine nor the cluster names one.
defaultSSHKeyName == "default"

\* The lookup values of CreateInstance: the value of the AWSMachine when it is
\* not empty, else the value of the cluster.
imageLookupFormat(scope) ==
    IF scope.imageLookupFormat = "" THEN scope.clusterImageLookupFormat
    ELSE scope.imageLookupFormat

\* imageLookupOrg without the value of the cluster.
imageLookupOrgOfMachine(scope) == scope.imageLookupOrg

imageLookupOrg(scope) ==
    IF scope.imageLookupOrg = "" THEN scope.clusterImageLookupOrg
    ELSE scope.imageLookupOrg

imageLookupBaseOS(scope) ==
    IF scope.imageLookupBaseOS = "" THEN scope.clusterImageLookupBaseOS
    ELSE scope.imageLookupBaseOS

\* No lookup was made.
NoLookup == [path |-> "none"]

\* Service.eksAMILookup(version, lookupType) and
\* Service.defaultAMIIDLookup(format, org, baseOS, version): the image id and the
\* error, with the lookup made.
eksAMILookup(version, fail) ==
    [ imageID |-> IF fail = "AMILookup" THEN "" ELSE "ami-eks-" \o version,
      err |-> IF fail = "AMILookup" THEN <<"failed to get ami SSM parameter">> ELSE NoError,
      lookup |-> [path |-> "eks", version |-> version] ]

defaultAMIIDLookup(format, org, baseOS, version, fail) ==
    [ imageID |-> IF fail = "AMILookup" THEN ""
                  ELSE "ami-" \o format \o "-" \o org \o "-" \o baseOS \o "-" \o version,
      err |-> IF fail = "AMILookup" THEN <<"failed to find ami">> ELSE NoError,
      lookup |-> [path |-> "default", format |-> format, org |-> org, baseOS |-> baseOS,
                  version |-> version] ]

\* CreateInstance: the image of the instance, from the machine configuration or
\* from a lookup.
resolveImage(scope, fail) ==
    IF scope.amiID # Nil
      THEN [imageID |-> scope.amiID, err |-> NoError, lookup |-> NoLookup]
    ELSE IF scope.version = Nil
      THEN [imageID |-> "",
            err |-> <<"Either AWSMachine's spec.ami.id or Machine's spec.version must be defined">>,
            lookup |-> NoLookup]
    ELSE IF /\ scope.eks
            /\ imageLookupFormat(scope) = ""
            /\ imageLookupOrg(scope) = ""
            /\ imageLookupBaseOS(scope) = ""
      THEN eksAMILookup(scope.version, fail)
    ELSE defaultAMIIDLookup(imageLookupFormat(scope), imageLookupOrg(scope),
                            imageLookupBaseOS(scope), scope.version, fail)

\* prioritizedSSHKeyName with the default key name for every cluster.
prioritizedSSHKeyNameAlwaysDefault(scope) ==
    IF scope.sshKeyName # Nil THEN scope.sshKeyName
    ELSE IF scope.clusterSSHKeyName # Nil THEN scope.clusterSSHKeyName
    ELSE defaultSSHKeyName

\* CreateInstance: the key name of the machine, else of the cluster, else the
\* default one unless the cluster is externally managed.
prioritizedSSHKeyName(scope) ==
    IF scope.sshKeyName # Nil THEN scope.sshKeyName
    ELSE IF scope.clusterSSHKeyName # Nil THEN scope.clusterSSHKeyName
    ELSE IF ~scope.external THEN defaultSSHKeyName
    ELSE ""

\* userdata.GzipBytes and base64.StdEncoding.EncodeToString
encodeUserData(userData, uncompressed) ==
    "base64:" \o (IF uncompressed THEN userData ELSE "gzip:" \o userData)

\* An event of the recorder: its type and its reason.
Event(type, reason) == [type |-> type, reason |-> reason]

\* What CreateInstance returns when it fails before runInstance.
Refused(err, events, lookup) ==
    [ instance |-> NilInstance, err |-> err, events |-> events, lookup |-> lookup,
      input |-> NoInput, ran |-> NilInstance, calls |-> <<>>, sent |-> <<>> ]

\* CreateInstance: the loop that attaches the security groups to the network
\* interfaces of the template, from the k-th interface on.
RECURSIVE attachToInterfaces(_, _, _, _, _, _)
attachToInterfaces(k, interfaces, groups, existingGroups, sent, fail) ==
    IF k > Len(interfaces) THEN [err |-> NoError, sent |-> sent]
    ELSE LET r == attachSecurityGroupsToNetworkInterface(groups, existingGroups, fail)
             s == sent \o [j \in 1..Len(r.sent) |->
                              [eni |-> interfaces[k], groups |-> r.sent[j]]]
         IN  IF r.err # NoError THEN [err |-> r.err, sent |-> s]
             ELSE attachToInterfaces(k + 1, interfaces, groups, existingGroups, s, fail)

\* CreateInstance from the call of runInstance on.
createWith(scope, input, lookup, fail) ==
    LET out == runInstance(input, fail)
        attached == attachToInterfaces(1, input.networkInterfaces, input.securityGroupIDs,
                                       scope.existingGroups, <<>>, fail)
    IN  IF out.err # NoError
          THEN [ instance |-> NilInstance, err |-> out.err,
                 events |-> IF ~IsFailedDependency(out.err)
                              THEN << Event("Warning", "FailedCreate") >> ELSE <<>>,
                 lookup |-> lookup, input |-> input, ran |-> out.instance,
                 calls |-> out.calls, sent |-> <<>> ]
        ELSE IF attached.err # NoError
          THEN [ instance |-> NilInstance, err |-> attached.err, events |-> <<>>,
                 lookup |-> lookup, input |-> input, ran |-> out.instance,
                 calls |-> out.calls, sent |-> attached.sent ]
        ELSE [ instance |-> out.instance, err |-> NoError,
               events |-> << Event("Normal", "SuccessfulCreate") >>,
               lookup |-> lookup, input |-> input, ran |-> out.instance,
               calls |-> out.calls, sent |-> attached.sent ]

\* Service.CreateInstance(scope, userData): the instance and the error it returns,
\* with the events it recorded, the image lookup it made, the infrav1.Instance it
\* handed to runInstance, the instance RunInstances created, the EC2 calls of
\* runInstance and the group lists sent to the network interfaces.
CreateInstance(scope, fail) ==
    LET image == resolveImage(scope, fail)
        subnet == findSubnet(scope)
        core == GetCoreSecurityGroups(scope)
        key == prioritizedSSHKeyName(scope)
        input ==
            [ nil |-> FALSE,
              type |-> scope.type,
              iamProfile |-> scope.iamProfile,
              rootVolume |-> scope.rootVolume,
              nonRootVolumes |-> scope.nonRootVolumes,
              networkInterfaces |-> scope.networkInterfaces,
              tags |-> scope.tags,
              imageID |-> image.imageID,
              subnetID |-> subnet.id,
              userData |-> encodeUserData(scope.userData, scope.uncompressed),
              securityGroupIDs |-> core.ids,
              sshKeyName |-> IF key # "" THEN key ELSE Nil,
              spotMarketOptions |-> scope.spotMarketOptions,
              tenancy |-> scope.tenancy ]
    IN  IF image.err # NoError THEN Refused(image.err, <<>>, image.lookup)
        ELSE IF subnet.err # NoError
          THEN Refused(subnet.err,
                       IF subnet.event = "none" THEN <<>>
                       ELSE << Event(IF subnet.event = "FailedCreate" THEN "Warning"
                                     ELSE "Normal", subnet.event) >>,
                       image.lookup)
        ELSE IF ~scope.external /\ ~scope.eks /\ scope.dnsName = ""
          THEN Refused(NewFailedDependency("failed to run controlplane, APIServer ELB not available"),
                       << Event("Normal", "FailedCreateInstance") >>, image.lookup)
        ELSE IF ~scope.uncompressed /\ fail = "GzipBytes"
          THEN Refused(<<"failed to gzip userdata">>, <<>>, image.lookup)
        ELSE IF core.err # NoError THEN Refused(core.err, <<>>, image.lookup)
        ELSE createWith(scope, input, image.lookup, fail)

\* What may fail while CreateInstance runs: an image lookup, the compression of
\* the user data, or an EC2 call.
CreateFaults ==
    {"none", "AMILookup", "GzipBytes", "RunInstances", "NoInstances",
     "WaitUntilInstanceRunning", "DescribeNetworkInterfaceAttribute",
     "ModifyNetworkInterfaceAttribute"}

\* A machine scope that has all CreateInstance needs: an image id, the subnets of
\* the cluster, a load balancer with a DNS name and a group for every role.
BaseScope ==
    [ amiID |-> "ami-1", version |-> "v1.20.1",
      imageLookupFormat |-> "", imageLookupOrg |-> "", imageLookupBaseOS |-> "",
      clusterImageLookupFormat |-> "", clusterImageLookupOrg |-> "",
      clusterImageLookupBaseOS |-> "",
      eks |-> FALSE, external |-> FALSE,
      sshKeyName |-> Nil, clusterSSHKeyName |-> Nil,
      dnsName |-> "elb-1.example", role |-> "node",
      securityGroups |-> [sg \in SecurityGroupRoles |-> GroupOfRole(sg)],
      machineFD |-> Nil, templateFD |-> Nil, subnetID |-> Nil, filters |-> NilFilters,
      subnets |-> Subnets, describeFails |-> FALSE,
      networkInterfaces |-> <<>>, existingGroups |-> <<"sg-0">>,
      userData |-> "userdata", uncompressed |-> FALSE,
      type |-> "t3.large", iamProfile |-> "nodes.profile", rootVolume |-> NoVolume,
      nonRootVolumes |-> <<>>, tags |-> [Name |-> "v1", role |-> "v2"],
      spotMarketOptions |-> NoSpot, tenancy |-> "" ]

\* The scopes that differ in what the image is resolved from.
ImageScopes ==
    { [BaseScope EXCEPT !.amiID = id, !.version = version, !.eks = eks,
                        !.imageLookupFormat = format, !.imageLookupOrg = org,
                        !.imageLookupBaseOS = baseOS,
                        !.clusterImageLookupFormat = clusterFormat,
                        !.clusterImageLookupOrg = clusterOrg,
                        !.clusterImageLookupBaseOS = clusterBaseOS] :
        id \in {Nil, "ami-1"}, version \in {Nil, "v1.20.1"}, eks \in BOOLEAN,
        format \in {"", "fmt-m"}, org \in {"", "org-m"}, baseOS \in {"", "os-m"},
        clusterFormat \in {"", "fmt-c"}, clusterOrg \in {"", "org-c"},
        clusterBaseOS \in {"", "os-c"} }

\* The scopes that differ in the key names of the machine and of the cluster.
KeyScopes ==
    { [BaseScope EXCEPT !.sshKeyName = key, !.clusterSSHKeyName = clusterKey,
                        !.external = external, !.eks = eks] :
        key \in {Nil, "", "machine-key"}, clusterKey \in {Nil, "", "cluster-key"},
        external \in BOOLEAN, eks \in BOOLEAN }

\* The scopes that differ in what the instance depends on: the subnets, the load
\* balancer, the security groups, and the network interfaces of the template.
DependencyScopes ==
    { [BaseScope EXCEPT !.subnetID = id, !.filters = filters, !.subnets = subnets,
                        !.describeFails = describeFails, !.dnsName = dnsName,
                        !.securityGroups = groups, !.role = role, !.eks = eks,
                        !.external = external, !.networkInterfaces = interfaces] :
        id \in {Nil, "subnet-1", "subnet-9"},
        filters \in {NilFilters, Filters(<< [name |-> "tag:role", values |-> <<"infra">>] >>)},
        subnets \in {<<>>, Subnets}, describeFails \in BOOLEAN,
        dnsName \in {"", "elb-1.example"},
        groups \in {[sg \in present |-> GroupOfRole(sg)] :
                       present \in {SecurityGroupRoles,
                                    SecurityGroupRoles \ {SecurityGroupNode}}},
        role \in {"node", "control-plane"}, eks \in BOOLEAN, external \in BOOLEAN,
        interfaces \in InterfaceLists }

\* What CreateInstance is asked: the machine scope, and what fails.
InstanceRequests ==
    [scope : ImageScopes \cup KeyScopes, fail : {"none", "AMILookup"}]
    \cup [scope : DependencyScopes, fail : CreateFaults]

InstanceInit ==
    /\ awsCluster = NewObject
    /\ eventBridge = FALSE
    /\ calls = <<>>
    /\ result = NoResult
    /\ seen = NotInvoked
    /\ mem = Gone
    /\ inflight = Idle
    /\ request \in InstanceRequests
    /\ reply = NoReply

\* One call of CreateInstance.
Create ==
    /\ reply = NoReply
    /\ reply' = CreateInstance(request.scope, request.fail)
    /\ UNCHANGED <<request, cvars>>

InstanceNext == Create

InstanceSpec == InstanceInit /\ [][InstanceNext]_vars

----------------------------------------------------------------------------
(* The admission of updates to an AWSCluster: AWSCluster.ValidateUpdate.    *)

\* The stored AWSCluster is the request: it went through Default and ValidateCreate
\* when it was created.  The reply is the update being judged, as Default left it,
\* and what ValidateUpdate did: the errors it returned, or its panic.
UpdateInit ==
    /\ awsCluster = NewObject
    /\ eventBridge = FALSE
    /\ calls = <<>>
    /\ result = NoResult
    /\ seen = NotInvoked
    /\ mem = Gone
    /\ inflight = Idle
    /\ request \in {Default(c) : c \in {a \in AWSClusters : a.bastionValid}}
    /\ reply = NoReply

\* An update arrives: Default fills it in, then ValidateUpdate judges it against
\* the stored object.
Validate ==
    /\ reply = NoReply
    /\ \E u \in AWSClusters :
          LET r == Default(u)
          IN  reply' = [r |-> r, panic |-> ValidateUpdate(r, request).panic,
                        allErrs |-> ValidateUpdate(r, request).allErrs]
    /\ UNCHANGED <<request, cvars>>

\* The API server stores an update ValidateUpdate accepted.
Admit ==
    /\ reply # NoReply
    /\ ~reply.panic
    /\ reply.allErrs = <<>>
    /\ request' = reply.r
    /\ reply' = NoReply
    /\ UNCHANGED cvars

\* The API server refuses an update ValidateUpdate reported errors for, and one
\* for which the call of the webhook failed (failurePolicy=fail).
Deny ==
    /\ reply # NoReply
    /\ reply.panic \/ reply.allErrs # <<>>
    /\ reply' = NoReply
    /\ UNCHANGED <<request, cvars>>

UpdateNext == Validate \/ Admit \/ Deny

UpdateSpec == UpdateInit /\ [][UpdateNext]_vars

----------------------------------------------------------------------------
(* The mapping from an owning Cluster to reconciliation requests.           *)

ClusterNamespaces == {"default", "other"}

InfraNames == {"test", "prod"}

\* c.Spec.InfrastructureRef == nil
NoInfrastructureRef == [kind |-> "none", namespace |-> "", name |-> ""]

InfrastructureRefs ==
    {NoInfrastructureRef} \cup
    [kind : {"AWSCluster", "AWSManagedControlPlane"}, namespace : ClusterNamespaces,
     name : InfraNames]

\* The Clusters the watch may hand to the mapping function.
OwnerClusters ==
    [ namespace         : ClusterNamespaces,
      deletionTimestamp : BOOLEAN,
      infrastructureRef : InfrastructureRefs ]

\* types.NamespacedName
NamespacedName(namespace, name) == [namespace |-> namespace, name |-> name]

ObjectKeys == [namespace : ClusterNamespaces, name : InfraNames]

\* The AWSClusters in the API server: for each key, none, one the controller
\* manages, or one that carries the externally-managed annotation.
AWSClusterStores == [ObjectKeys -> {"absent", "managed", "external"}]

\* r.Get(ctx, key, awsCluster)
GetAWSCluster(store, key, fail) ==
    IF fail = "Get" THEN [found |-> "absent", err |-> <<"Get">>]
    ELSE IF store[key] = "absent" THEN [found |-> "absent", err |-> <<"NotFound">>]
    ELSE [found |-> store[key], err |-> NoError]

\* requeueAWSClusterForUnpausedCluster: the requests for the Cluster c, and the
\* keys it read from the API server.
requeueAWSClusterForUnpausedCluster(c, store, fail) ==
    LET ref == c.infrastructureRef
        key == NamespacedName(ref.namespace, ref.name)
        got == GetAWSCluster(store, key, fail)
    IN  IF c.deletionTimestamp THEN [requests |-> <<>>, gets |-> <<>>]
        ELSE IF ref = NoInfrastructureRef THEN [requests |-> <<>>, gets |-> <<>>]
        ELSE IF ref.kind # "AWSCluster" THEN [requests |-> <<>>, gets |-> <<>>]
        ELSE IF got.err # NoError THEN [requests |-> <<>>, gets |-> <<key>>]
        ELSE IF got.found = "external" THEN [requests |-> <<>>, gets |-> <<key>>]
        ELSE [requests |-> <<NamespacedName(c.namespace, ref.name)>>, gets |-> <<key>>]

MapRequests == [c : OwnerClusters, store : AWSClusterStores, fail : {"none", "Get"}]

MapInit ==
    /\ awsCluster = NewObject
    /\ eventBridge = FALSE
    /\ calls = <<>>
    /\ result = NoResult
    /\ seen = NotInvoked
    /\ mem = Gone
    /\ inflight = Idle
    /\ request \in MapRequests
    /\ reply = NoReply

\* One event of the Cluster watch: the mapping function is called once.
MapCluster ==
    /\ reply = NoReply
    /\ reply' = requeueAWSClusterForUnpausedCluster(request.c, request.store, request.fail)
    /\ UNCHANGED <<request, cvars>>

MapNext == MapCluster

MapSpec == MapInit /\ [][MapNext]_vars

----------------------------------------------------------------------------
(* What the properties below say about one reconciliation.                 *)

\* The order in which the delete path and the create path call the services.
DeleteOrder ==
    <<"DeleteLoadbalancers", "DeleteBastion", "DeleteSecurityGroups", "DeleteNetwork",
      "DeleteBucket">>

CreateOrder ==
    <<"ReconcileNetwork", "ReconcileSecurityGroups", "ReconcileBastion",
      "ReconcileLoadbalancers", "ReconcileBucket">>

Range(q) == {q[i] : i \in 1..Len(q)}

EventOps == {"ReconcileEC2Events", "DeleteEC2Events"}

\* The calls of the step just taken to the deletion steps or to the convergers.
StepCalls == SelectSeq(calls, LAMBDA c : c.op \in Range(DeleteOrder) \cup Range(CreateOrder))

CalledOps == {calls[i].op : i \in 1..Len(calls)}

\* The innermost error of a chain of wrapped errors.
Cause(err) == err[Len(err)]

\* Reconcile got past its early returns in the step just taken.
PipelineRan ==
    seen.invoked /\ seen.fault = "none" /\ seen.exists /\ seen.hasOwner /\ ~seen.paused

DeletePath == PipelineRan /\ seen.deletionTimestamp

CreatePath == PipelineRan /\ ~seen.deletionTimestamp

\* C1: in the delete path the deletion steps are attempted in the order load
\* balancer, bastion, security groups, network, object store; a step is attempted
\* only if every earlier one succeeded in this reconciliation, and when a step
\* fails nothing is attempted after it and Reconcile returns that step's error.
C1_DeleteOrder ==
    DeletePath =>
        LET sc == StepCalls
        IN /\ Len(sc) \in 1..Len(DeleteOrder)
           /\ \A i \in 1..Len(sc) : sc[i].op = DeleteOrder[i]
           /\ \A i \in 1..(Len(sc) - 1) : sc[i].ok
           /\ ~sc[Len(sc)].ok =>
                 /\ calls[Len(calls)] = sc[Len(sc)]
                 /\ result.err # NoError
                 /\ Cause(result.err) = sc[Len(sc)].op
           /\ sc[Len(sc)].ok => Len(sc) = Len(DeleteOrder)

\* A delete reconciliation in which the load balancer deletion failed: the bastion
\* was not touched.
C1_Witness ==
    /\ DeletePath
    /\ \E i \in 1..Len(calls) : calls[i].op = "DeleteLoadbalancers" /\ ~calls[i].ok
    /\ "DeleteBastion" \notin CalledOps
    /\ result.err = <<"DeleteLoadbalancers">>

\* Every deletion step was attempted and succeeded in the step just taken.
AllDeleted ==
    /\ DeletePath
    /\ Len(StepCalls) = Len(DeleteOrder)
    /\ \A i \in 1..Len(StepCalls) : StepCalls[i].op = DeleteOrder[i] /\ StepCalls[i].ok

\* C2: the finalizer goes away, in memory and in the store, only in a delete
\* reconciliation in which all five deletions succeeded; after a reconciliation in
\* which one of them failed the finalizer is still there.
C2_FinalizerRemoval ==
    /\ [][(awsCluster.finalizer /\ ~awsCluster'.finalizer) => AllDeleted']_vars
    /\ [](DeletePath /\ ~mem.finalizer => AllDeleted)
    /\ [](DeletePath /\ (\E i \in 1..Len(StepCalls) : ~StepCalls[i].ok) =>
             mem.finalizer /\ awsCluster.exists /\ awsCluster.finalizer)

\* The finalizer was removed and the store let the object go.
C2_Witness == AllDeleted /\ ~mem.finalizer /\ ~awsCluster.exists

\* C3: in the create path the convergers are invoked one after the other in the
\* order network, security groups, bastion, load balancer, object store, each only
\* after all earlier ones succeeded in this reconciliation.
C3_CreateOrder ==
    CreatePath =>
        LET sc == StepCalls
        IN /\ Len(sc) \in 0..Len(CreateOrder)
           /\ \A i \in 1..Len(sc) : sc[i].op = CreateOrder[i]
           /\ \A i \in 1..(Len(sc) - 1) : sc[i].ok
           /\ \A i \in 1..Len(calls) :
                 \/ i <= 3 /\ calls[i] = sc[i]
                 \/ i = 4 /\ eventBridge /\ calls[i].op = "ReconcileEC2Events"
                 \/ i > 3 /\ calls[i].op \in {"ReconcileLoadbalancers", "ReconcileBucket"}
                 \/ i = Len(calls) /\ calls[i].op = "LookupIP"
                      /\ Len(sc) = Len(CreateOrder) /\ sc[Len(sc)].ok

\* A create reconciliation that stopped at the bastion.
C3_Witness ==
    /\ CreatePath
    /\ Len(StepCalls) = 3
    /\ StepCalls[3] = [op |-> "ReconcileBastion", ok |-> FALSE]

\* The condition that belongs to a converger.
ConditionOf(op) ==
    CASE op = "ReconcileNetwork" -> "NetworkReadyCondition"
      [] op = "ReconcileSecurityGroups" -> "ClusterSecurityGroupsReadyCondition"
      [] op = "ReconcileBastion" -> "BastionHostReadyCondition"
      [] op = "ReconcileLoadbalancers" -> "LoadBalancerReadyCondition"
      [] op = "ReconcileBucket" -> "S3BucketReadyCondition"

\* A converger failed in the create path of the step just taken.
ConvergerFailed == CreatePath /\ StepCalls # <<>> /\ ~StepCalls[Len(StepCalls)].ok

FailedCall == StepCalls[Len(StepCalls)]

\* C4: in the create path, whichever converger fails, no later one is invoked,
\* the converger's matching condition is False with the error's message, and the
\* error is returned.
C4_ConvergerFailure ==
    ConvergerFailed =>
        /\ calls[Len(calls)] = FailedCall
        /\ result.err # NoError
        /\ Cause(result.err) = FailedCall.op
        /\ mem.conditions[ConditionOf(FailedCall.op)].status = "False"
        /\ mem.conditions[ConditionOf(FailedCall.op)].message = ErrorOf(FailedCall)

\* The bastion converger failed: its condition carries the error, and the load
\* balancer converger was not invoked.
C4_Witness ==
    /\ ConvergerFailed
    /\ FailedCall.op = "ReconcileBastion"
    /\ mem.conditions["BastionHostReadyCondition"].message = <<"ReconcileBastion">>
    /\ "ReconcileLoadbalancers" \notin CalledOps

\* C5: once the control plane endpoint of the stored object is non-zero, no step
\* changes its host or port while the object exists, whatever DNS name or API
\* port a later reconciliation observes.
C5_EndpointWriteOnce ==
    [][(awsCluster.endpoint # ZeroEndpoint /\ awsCluster'.exists) =>
          awsCluster'.endpoint = awsCluster.endpoint]_vars

\* Every converger was invoked and succeeded in the create path of the step just
\* taken.
AllConverged ==
    /\ CreatePath
    /\ Len(StepCalls) = Len(CreateOrder)
    /\ \A i \in 1..Len(StepCalls) : StepCalls[i].op = CreateOrder[i] /\ StepCalls[i].ok

\* The scope's Close is the only thing that can have failed.
NoErrorButClose == result.err \in {NoError, <<"Close">>}

\* The one point where reconcileNormal sets ready: every converger succeeded, the
\* load balancer's name is there and resolved, the endpoint and the failure domains
\* of the private subnets' zones are set.
ReadyPoint ==
    /\ AllConverged
    /\ calls[Len(calls)] = [op |-> "LookupIP", ok |-> TRUE]
    /\ mem.elb.dns # ""
    /\ mem.endpoint.host = mem.elb.dns /\ mem.endpoint.port \in Ports
    /\ \A i \in 1..Len(Subnets) :
          ~Subnets[i].public =>
             mem.failureDomains[Subnets[i].az] =
                IF InZoneList(Subnets[i].az, mem.elb.azs) THEN "ControlPlane"
                                                           ELSE "NotControlPlane"
    /\ result.requeueAfter = 0
    /\ NoErrorButClose

\* Reconcile has handed its result to the controller.
Returned == seen.invoked /\ inflight.phase = "idle"

\* A reconciliation of an object whose endpoint was stored observed another DNS
\* name or another API port and has returned: the update of the spec was refused,
\* the store keeps the endpoint, and Reconcile returns the error of Close.
C5_Witness ==
    /\ Returned
    /\ ReadyPoint
    /\ seen.endpoint # ZeroEndpoint
    /\ mem.endpoint # seen.endpoint
    /\ awsCluster.endpoint = seen.endpoint
    /\ result.err = <<"Close">>

\* C6: ready becomes true, in memory or in the store, only at the end of a create
\* path reconciliation in which all five convergers succeeded, the load balancer's
\* DNS name was non-empty and resolved, the endpoint was published and the failure
\* domains were computed; no other path sets it.
C6_ReadyOnlyAtEnd ==
    /\ [][(~awsCluster.ready /\ awsCluster'.ready) => ReadyPoint']_vars
    /\ [](seen.invoked /\ ~seen.ready /\ mem.ready => ReadyPoint)
    /\ [](seen.invoked /\ ~ReadyPoint => mem.ready = seen.ready)

\* An object that was not ready is ready after the step just taken.
C6_Witness == ReadyPoint /\ ~seen.ready /\ mem.ready /\ awsCluster.ready

\* Every converger succeeded but the load balancer's name is empty or does not
\* resolve.
WaitingForDNS ==
    /\ AllConverged
    /\ \/ mem.elb.dns = ""
       \/ calls[Len(calls)] = [op |-> "LookupIP", ok |-> FALSE]

\* What reconcileNormal leaves on the object when it waits for the DNS name.
WaitsUnpublished ==
    /\ result.requeueAfter = RequeueDelay
    /\ mem.conditions["LoadBalancerReadyCondition"].status = "False"
    /\ mem.conditions["LoadBalancerReadyCondition"].severity = "Info"
    /\ mem.endpoint = seen.endpoint
    /\ mem.ready = seen.ready

\* C7 as stated: while waiting for the DNS name Reconcile returns requeue-after 15
\* seconds and no error, with the condition False/Info, the endpoint and ready
\* untouched.
C7_WaitReturnsNoError == WaitingForDNS => WaitsUnpublished /\ result.err = NoError

\* C7, amended: while waiting for the DNS name Reconcile returns requeue-after 15
\* seconds, with no error other than that of closing the scope, marks the load
\* balancer condition False with severity Info, and neither publishes the endpoint
\* nor sets ready.
C7_WaitForDNS == WaitingForDNS => WaitsUnpublished /\ NoErrorButClose

\* The load balancer has a name that does not resolve, and the object that was not
\* ready stays so.
C7_Witness ==
    /\ WaitingForDNS
    /\ mem.elb.dns # ""
    /\ result = [requeueAfter |-> RequeueDelay, err |-> NoError]
    /\ seen.endpoint = ZeroEndpoint /\ mem.endpoint = ZeroEndpoint
    /\ ~mem.ready

\* Reconcile found an object with a deletion timestamp in the step just taken.
DeletionObserved == seen.invoked /\ seen.exists /\ seen.deletionTimestamp

DeleteEntered == "DeleteLoadbalancers" \in CalledOps

NoConverger == CalledOps \cap (Range(CreateOrder) \cup {"ReconcileEC2Events"}) = {}

\* C8 as stated: an object with a deletion timestamp, whose owner is found and
\* for which no call to the API server fails, always enters the delete path.
C8_DeletionAlwaysEntersDelete ==
    (DeletionObserved /\ seen.fault = "none" /\ seen.hasOwner) =>
        DeleteEntered /\ NoConverger

\* C8, amended: for an object with a deletion timestamp Reconcile never invokes a
\* create path converger, whatever the object was before; it enters the delete path
\* exactly when it gets past its early returns, that is when the owner cluster is
\* found, the object is not paused and creating the patch helper and the scope
\* does not fail.
C8_DeletionPreempts ==
    DeletionObserved => NoConverger /\ (DeleteEntered <=> PipelineRan)

\* An object that was ready goes through the delete path.
C8_Witness == DeletionObserved /\ seen.ready /\ DeleteEntered /\ NoConverger

\* The event notification call of the step just taken failed.
EventsFailed ==
    PipelineRan /\ \E i \in 1..Len(calls) : calls[i].op \in EventOps /\ ~calls[i].ok

AllStepsOk == \A i \in 1..Len(StepCalls) : StepCalls[i].ok

\* C10: with the event notification integration enabled, a failure of its setup or
\* teardown leaves the rest of the reconciliation as it is without the failure:
\* the load balancer step follows, the result carries no error of the event
\* notification, and when every other step succeeds the finalizer is removed
\* (delete path) or the DNS wait is reached (create path).
C10_EventsNonFatal ==
    EventsFailed =>
        /\ eventBridge
        /\ \A i \in 1..Len(calls) :
              calls[i].op \in EventOps =>
                 /\ i < Len(calls)
                 /\ calls[i + 1].op \in {"ReconcileLoadbalancers", "DeleteLoadbalancers"}
        /\ \A j \in 1..Len(result.err) : result.err[j] \notin EventOps
        /\ AllStepsOk => NoErrorButClose
        /\ (DeletePath /\ AllStepsOk) => AllDeleted /\ ~mem.finalizer
        /\ (CreatePath /\ AllStepsOk) => WaitingForDNS \/ ReadyPoint

\* The teardown of the event notification failed and the finalizer was removed.
C10_Witness == EventsFailed /\ DeletePath /\ ~mem.finalizer /\ ~awsCluster.exists

\* C11: in the create path the finalizer is added and persisted before any
\* converger is invoked: whenever a converger was invoked the stored object has the
\* finalizer, whatever became of the later patches, and when persisting the
\* finalizer fails Reconcile returns that error and invokes no converger.
C11_FinalizerBeforeConvergers ==
    CreatePath =>
        /\ mem.finalizer
        /\ calls # <<>> => awsCluster.exists /\ awsCluster.finalizer
        /\ result.err = <<"PatchObject">> => calls = <<>>
        /\ (calls = <<>>) => result.err = <<"PatchObject">>

\* The security group converger failed and neither Close nor the deferred patch
\* went through: the store holds the finalizer but not the condition.
C11_Witness ==
    /\ CreatePath
    /\ ConvergerFailed
    /\ mem.conditions["ClusterSecurityGroupsReadyCondition"].status = "False"
    /\ awsCluster.conditions["ClusterSecurityGroupsReadyCondition"].status = "Absent"
    /\ awsCluster.finalizer

\* The fields of the object that Reconcile writes.
Written(o) ==
    [ finalizer |-> o.finalizer, endpoint |-> o.endpoint, ready |-> o.ready, elb |-> o.elb,
      conditions |-> o.conditions, failureDomains |-> o.failureDomains ]

\* Reconcile has returned and the store does not hold what its pipeline left in
\* memory: a field Reconcile writes differs, or the object is gone though
\* Reconcile did not let it go.
NotPersisted ==
    /\ PipelineRan
    /\ Returned
    /\ IF awsCluster.exists THEN Written(awsCluster) # Written(mem) ELSE Persist(mem).exists

\* C12: when the object as Reconcile left it was not persisted, Reconcile returned
\* an error; it never reports success for updates that did not reach the store.
C12_UnpersistedIsError == NotPersisted => result.err # NoError

\* The reconciliation reached the ready point, the patch of Close failed and so
\* did the deferred patch: the store does not have ready, Reconcile returns the
\* error of Close.
C12_Witness ==
    /\ NotPersisted
    /\ ReadyPoint
    /\ mem.ready /\ ~awsCluster.ready
    /\ result.err = <<"Close">>

\* The object is in the store and carries no deletion marker.
Undeleted == awsCluster.exists /\ ~awsCluster.deletionTimestamp

\* In the create path of the call that last got to a return statement every
\* converger succeeded and the load balancer's name was there and resolved.
ConvergersSucceed ==
    (CreatePath /\ calls # <<>>) =>
        AllConverged /\ calls[Len(calls)] = [op |-> "LookupIP", ok |-> TRUE]

\* The stored object has its owner cluster set and is not paused.
Unpaused == awsCluster.exists => awsCluster.hasOwner /\ ~awsCluster.paused

\* No call of Reconcile to the API server has failed: reading the object and its
\* owner, making the patch helper and the scope, the patch of the finalizer and
\* the patch of Close.
APIServerAnswers ==
    /\ seen.invoked => seen.fault = "none"
    /\ inflight.phase # "unregistered"
    /\ result.err # <<"Close">>

Marked == awsCluster.exists /\ awsCluster.deletionTimestamp

\* In the delete path of the call that last got to a return statement every
\* deletion step succeeded.
DeletionsSucceed == DeletePath => AllDeleted

PastDNSWait == AllConverged /\ calls[Len(calls)] = [op |-> "LookupIP", ok |-> TRUE]

\* C15: when a create path reconciliation reaches the ready point, the failure
\* domain of the zone of every private subnet is recorded, and it is a control
\* plane domain if and only if the zone is in the load balancer's zone list.
C15_FailureDomainFlags ==
    PastDNSWait =>
        \A i \in 1..Len(Subnets) :
            ~Subnets[i].public =>
                /\ mem.failureDomains[Subnets[i].az] \in {"ControlPlane", "NotControlPlane"}
                /\ mem.failureDomains[Subnets[i].az] = "ControlPlane"
                      <=> \E j \in 1..Len(mem.elb.azs) : mem.elb.azs[j] = Subnets[i].az

\* The load balancer is in z2 and z3: of the private subnets' zones z3 is a control
\* plane domain and z1 is not, and the stored object has them.
C15_Witness ==
    /\ PastDNSWait
    /\ mem.elb.azs = <<"z2", "z3">>
    /\ mem.failureDomains["z3"] = "ControlPlane"
    /\ mem.failureDomains["z1"] = "NotControlPlane"
    /\ awsCluster.failureDomains = mem.failureDomains

----------------------------------------------------------------------------
(* What the properties below say about one call of findSubnet.             *)

\* findSubnet has returned for the machine scope at hand.
Answered == reply # NoReply

\* The subnets of the cluster network that carry the id of the machine spec.
Observed == FindByID(request.subnets, request.subnetID)

\* The machine scope at hand with no failure domain on the Machine or the AWSMachine.
Unconstrained == [request EXCEPT !.machineFD = Nil, !.templateFD = Nil]

\* The machine spec names a subnet of the cluster network that lies outside the
\* failure domain in force.
ZoneMismatch ==
    /\ request.subnetID # Nil
    /\ Observed # <<>>
    /\ failureDomainOf(request) # Nil
    /\ Observed[1].az # failureDomainOf(request)

\* C16: a subnet id of the machine spec that is in the cluster network, together
\* with a failure domain other than that subnet's availability zone, makes
\* findSubnet fail with FailedDependency and return no id; the same machine scope
\* without any failure domain makes it succeed and return exactly that id.
C16_ExplicitIDZoneMismatch ==
    Answered /\ ZoneMismatch =>
        /\ IsFailedDependency(reply.err)
        /\ reply.id = ""
        /\ findSubnet(Unconstrained).err = NoError
        /\ findSubnet(Unconstrained).id = request.subnetID

C16_Witness ==
    /\ Answered
    /\ ZoneMismatch
    /\ request.subnetID = "subnet-1"
    /\ request.machineFD = "z2"
    /\ request.templateFD = "z1"
    /\ IsFailedDependency(reply.err)
    /\ findSubnet(Unconstrained).id = "subnet-1"

\* The machine spec names a subnet id that the cluster network does not hold.
UnknownID == request.subnetID # Nil /\ Observed = <<>>

\* C17 as stated: a subnet id of the machine spec that is not in the cluster
\* network makes findSubnet fail with FailedDependency, with or without a failure
\* domain.
C17_UnknownIDFails == Answered /\ UnknownID => IsFailedDependency(reply.err)

\* The first of findSubnet's four rules whose precondition the machine scope meets.
RuleInForce ==
    CASE request.subnetID # Nil -> "id"
      [] request.subnetID = Nil /\ ~request.filters.nil -> "filters"
      [] request.subnetID = Nil /\ request.filters.nil
            /\ (request.machineFD # Nil \/ request.templateFD # Nil) -> "zone"
      [] OTHER -> "default"

\* The rule a failure of findSubnet comes from, by its message.
FailedRule ==
    CASE ~IsFailedDependency(reply.err) -> "none"
      [] reply.err[2] \in {"subnet with id not found",
                           "availability zone does not match with the failure domain"} ->
            "id"
      [] reply.err[2] = "no subnets available matching filters" -> "filters"
      [] reply.err[2] = "no subnets available in availability zone" -> "zone"
      [] OTHER -> "default"

\* The subnets EC2 returned for the query findSubnet issued.
Matched == DescribeSubnets(reply.query, request.describeFails).subnets

\* The ids of the private subnets of the cluster network.
PrivateIDs == {request.subnets[i].id : i \in {j \in 1..Len(request.subnets) :
                                                 ~request.subnets[j].public}}

\* C18: findSubnet applies four rules in strict priority (subnet id, subnet
\* filters, failure domain only, first private subnet) and the first rule whose
\* precondition holds decides alone: a failure comes from that rule and from no
\* other, a subnet id given together with filters is returned without any subnet
\* query, only the filter rule queries EC2, and when its query matches nothing the
\* result is FailedDependency whatever the later rules would have found.
C18_RulePriority ==
    Answered =>
        /\ IsFailedDependency(reply.err) => FailedRule = RuleInForce /\ reply.id = ""
        /\ (reply.query # NoQuery) <=> (RuleInForce = "filters")
        /\ RuleInForce = "id" /\ reply.err = NoError => reply.id = request.subnetID
        /\ RuleInForce = "filters" /\ ~request.describeFails =>
              IF Matched = <<>>
                THEN IsFailedDependency(reply.err)
                ELSE reply.err = NoError /\ reply.id = Matched[1].id
        /\ RuleInForce \in {"zone", "default"} =>
              IF reply.err = NoError
                THEN reply.id \in PrivateIDs
                ELSE IsFailedDependency(reply.err)

C18_Witness ==
    /\ Answered
    /\ RuleInForce = "filters"
    /\ request.machineFD = "z1"
    /\ request.subnets = Subnets
    /\ ~request.describeFails
    /\ Matched = <<>>
    /\ findSubnet([request EXCEPT !.filters = NilFilters]).id = "subnet-1"
    /\ IsFailedDependency(reply.err)
    /\ reply.id = ""

\* The failure domain the filter rule has to use: the Machine's when it has one,
\* else the AWSMachine's.
DomainInForce ==
    IF request.machineFD # Nil THEN {request.machineFD}
    ELSE IF request.templateFD # Nil THEN {request.templateFD} ELSE {}

\* The filters the filter rule has to send, each as the name and the set of values.
ExpectedFilters ==
    {<<"state", {"pending", "available"}>>}
        \cup (IF request.external THEN {} ELSE {<<"vpc-id", {ClusterVPC}>>})
        \cup {<<"availability-zone", {z}>> : z \in DomainInForce}
        \cup {<<request.filters.list[i].name, Range(request.filters.list[i].values)>> :
                 i \in 1..Len(request.filters.list)}

\* The filters findSubnet sent, in the same form.
SentFilters ==
    {<<reply.query[i].name, Range(reply.query[i].values)>> : i \in 1..Len(reply.query)}

\* C19: when the filter rule applies, the filters of its query are exactly: state
\* pending or available; the VPC of the cluster unless the cluster is externally
\* managed; the failure domain if one is given, the Machine's before the
\* AWSMachine's; and each filter of the machine spec. No match gives
\* FailedDependency and no id; with one or more matches the id of the first
\* subnet EC2 returned is the result.
C19_FilterRule ==
    Answered /\ RuleInForce = "filters" =>
        /\ SentFilters = ExpectedFilters
        /\ Len(reply.query) =
              1 + (IF request.external THEN 0 ELSE 1) + Cardinality(DomainInForce)
                + Len(request.filters.list)
        /\ ~request.describeFails =>
              IF Len(Matched) = 0
                THEN /\ IsFailedDependency(reply.err)
                     /\ reply.id = ""
                ELSE /\ reply.err = NoError
                     /\ reply.id = Matched[1].id

C19_Witness ==
    /\ Answered
    /\ RuleInForce = "filters"
    /\ request.machineFD = "z2"
    /\ request.templateFD = "z1"
    /\ ~request.external
    /\ Len(request.filters.list) = 1
    /\ Len(reply.query) = 4
    /\ Len(Matched) = 2
    /\ reply.id = "subnet-4"
    /\ reply.err = NoError

\* The places in the cluster network of the subnets that are private and, when a
\* failure domain is given, lie in it.
Candidates ==
    {i \in 1..Len(request.subnets) :
        /\ ~request.subnets[i].public
        /\ DomainInForce # {} => request.subnets[i].az \in DomainInForce}

FirstCandidate == CHOOSE i \in Candidates : \A j \in Candidates : i <= j

\* C20: with neither a subnet id nor subnet filters, findSubnet returns the first
\* subnet of the cluster network, in its order, that is private and, when a failure
\* domain is given, lies in that availability zone; it never returns a public
\* subnet, and with no such subnet it fails with FailedDependency.
C20_FirstPrivateSubnet ==
    Answered /\ RuleInForce \in {"zone", "default"} =>
        IF Candidates = {}
          THEN /\ IsFailedDependency(reply.err)
               /\ reply.id = ""
          ELSE /\ reply.err = NoError
               /\ reply.id = request.subnets[FirstCandidate].id
               /\ \A i \in 1..Len(request.subnets) :
                     request.subnets[i].id = reply.id => ~request.subnets[i].public

C20_Witness ==
    /\ Answered
    /\ RuleInForce = "zone"
    /\ request.machineFD = Nil
    /\ request.templateFD = "z2"
    /\ Len(request.subnets) = 4
    /\ request.subnets[1].public
    /\ request.subnets[1].az = "z2"
    /\ FirstCandidate = 2
    /\ reply.id = "subnet-4"
    /\ reply.err = NoError

----------------------------------------------------------------------------
(* What the properties below say about one call of GetCoreSecurityGroups.  *)

\* The machine is a worker or a control plane machine.
KnownRole == request.role \in {"node", "control-plane"}

\* The roles whose groups the machine has to get, in order: node; the load
\* balancer's unless the cluster is EKS managed; the control plane's for a control
\* plane machine; the additional node group of EKS for a worker of such a cluster.
ExpectedRoles ==
    << "node" >>
        \o (IF request.eks THEN <<>> ELSE << "lb" >>)
        \o (IF request.role = "control-plane" THEN << "controlplane" >> ELSE <<>>)
        \o (IF request.role = "node" /\ request.eks
              THEN << "node-eks-additional" >> ELSE <<>>)

\* Every expected role has a group in the cluster.
AllRolesMapped ==
    \A i \in 1..Len(ExpectedRoles) : ExpectedRoles[i] \in DOMAIN request.securityGroups

\* The result the role list calls for: the ids of the expected roles in order, or
\* FailedDependency and no id when one of them has no group.
RolesResolved ==
    IF AllRolesMapped
      THEN /\ reply.err = NoError
           /\ reply.ids = [i \in 1..Len(ExpectedRoles) |->
                               request.securityGroups[ExpectedRoles[i]]]
      ELSE /\ IsFailedDependency(reply.err)
           /\ reply.ids = <<>>

\* C21 as stated: for a worker or a control plane machine GetCoreSecurityGroups
\* returns the ids of exactly the expected roles, in order, and FailedDependency
\* with no ids when one of them has no group in the cluster.
C21_RolesAlwaysResolved == Answered /\ KnownRole => RolesResolved

\* C21: for a worker or a control plane machine of a cluster whose infrastructure
\* is not externally managed, GetCoreSecurityGroups returns the ids of exactly the
\* expected roles, in order, and FailedDependency with no ids when one of them has
\* no group in the cluster; for an externally managed cluster it returns no ids
\* and no error, whatever groups the cluster has.
C21_RoleResolution ==
    Answered /\ KnownRole =>
        IF request.external
          THEN reply.ids = <<>> /\ reply.err = NoError
          ELSE RolesResolved

C21_Witness ==
    /\ Answered
    /\ ~request.external
    /\ ~request.eks
    /\ request.role = "control-plane"
    /\ DOMAIN request.securityGroups = SecurityGroupRoles
    /\ reply.ids = <<"sg-node", "sg-lb", "sg-controlplane">>
    /\ reply.err = NoError

\* GetCoreSecurityGroups failed with an error other than FailedDependency.
FailedForGood == reply.err # NoError /\ ~IsFailedDependency(reply.err)

\* C22 as stated: for a machine whose role is neither node nor control-plane
\* GetCoreSecurityGroups fails with an error that is not FailedDependency, for
\* every cluster and whatever groups the cluster has.
C22_UnknownRoleAlwaysFails == Answered /\ ~KnownRole => FailedForGood

\* C22: for a machine whose role is neither node nor control-plane,
\* GetCoreSecurityGroups of a cluster that is not externally managed fails with an
\* error that is not FailedDependency and returns no ids, EKS managed or not and
\* whatever groups the cluster has; for an externally managed cluster it returns
\* no ids and no error.
C22_UnknownRole ==
    Answered /\ ~KnownRole =>
        /\ reply.ids = <<>>
        /\ IF request.external THEN reply.err = NoError ELSE FailedForGood

C22_Witness ==
    /\ Answered
    /\ request.role = "bastion"
    /\ ~request.external
    /\ request.eks
    /\ DOMAIN request.securityGroups = {}
    /\ reply.err = <<"Unknown node role">>

----------------------------------------------------------------------------
(* What the properties below say about one change of an instance.          *)

\* UpdateInstanceSecurityGroups has returned.
GroupsUpdated == Answered /\ request.op = "UpdateInstanceSecurityGroups"

\* The modify calls issued for the interface e, by their place among the calls.
SentTo(e) == {k \in 1..Len(reply.sent) : reply.sent[k].eni = e}

\* A requested group is missing from the interface e.
Missing(e) == \E g \in Range(request.ids) : g \notin Range(request.attached[e])

\* The group list of every modify call is the interface's existing list, kept as
\* it is, followed by requested groups; as a set it is the union of the two.
SendsUnion ==
    \A e \in ENISet :
       \A k \in SentTo(e) :
          LET sent == reply.sent[k].groups
              existing == request.attached[e]
          IN  /\ Range(sent) = Range(existing) \cup Range(request.ids)
              /\ Len(sent) >= Len(existing)
              /\ SubSeq(sent, 1, Len(existing)) = existing

\* C23 as stated: the group list sent for an interface is the union of its
\* existing and the requested groups, the existing ones preserved; exactly one
\* modify call is issued for an interface that misses a requested group and none
\* for an interface that has them all.
C23_OneCallPerMissingInterface ==
    GroupsUpdated =>
        /\ SendsUnion
        /\ \A e \in ENISet : Cardinality(SentTo(e)) = IF Missing(e) THEN 1 ELSE 0

\* The interface d comes before the interface e in the list of the instance.
Before(d, e) == \E i, j \in 1..Len(ENIs) : i < j /\ ENIs[i] = d /\ ENIs[j] = e

\* The update returns before it gets to a modify call for the interface e: the
\* interfaces cannot be listed, the groups of an interface cannot be read, or the
\* modify call for an interface before e fails.
StopsBefore(e) ==
    \/ request.fail \in {"DescribeNetworkInterfaces", "DescribeNetworkInterfaceAttribute"}
    \/ /\ request.fail = "ModifyNetworkInterfaceAttribute"
       /\ \E d \in ENISet : Before(d, e) /\ Missing(d)

\* C23, amended: the group list sent for an interface is the union of its
\* existing and the requested groups, the existing ones preserved; exactly one
\* modify call is issued for an interface that misses a requested group, unless
\* the update has returned an error before it gets to that interface, and none for
\* an interface that has them all; an update that returned no error, made again,
\* issues no call.
C23_AttachIsUnion ==
    GroupsUpdated =>
        /\ SendsUnion
        /\ \A e \in ENISet :
              /\ Cardinality(SentTo(e)) = IF Missing(e) /\ ~StopsBefore(e) THEN 1 ELSE 0
              /\ Missing(e) /\ StopsBefore(e) => reply.err # NoError
        /\ Len(reply.issued) = Len(reply.sent)
        /\ reply.err = NoError =>
              UpdateInstanceSecurityGroups(request.ids, reply.groups, "none").issued = <<>>

\* The spec's example on the first interface, while the second has every
\* requested group.
C23_Witness ==
    /\ GroupsUpdated
    /\ request.ids = <<"sg-2", "sg-3">>
    /\ request.attached["eni-1"] = <<"sg-1", "sg-2">>
    /\ request.attached["eni-2"] = <<"sg-3", "sg-1", "sg-2">>
    /\ reply.sent = << [eni |-> "eni-1", groups |-> <<"sg-1", "sg-2", "sg-3">>] >>
    /\ reply.err = NoError
    /\ reply.groups["eni-1"] = <<"sg-1", "sg-2", "sg-3">>

\* DetachSecurityGroupsFromNetworkInterface has returned.
GroupsDetached == Answered /\ request.op = "DetachSecurityGroupsFromNetworkInterface"

\* The places in the interface's group list of the groups that were not given.
Kept == {i \in 1..Len(request.existing) : request.existing[i] \notin Range(request.groups)}

\* q holds exactly the groups of the interface at the places in Kept, in the order
\* the interface lists them.
KeepsOrder(q) ==
    /\ Len(q) = Cardinality(Kept)
    /\ \A i \in 1..Len(q) :
          \E k \in Kept : /\ q[i] = request.existing[k]
                          /\ Cardinality({j \in Kept : j < k}) = i - 1

\* One modify call was issued, and its group list is the interface's current list
\* without the given groups, the remaining groups in their order.
OneCallWithRemaining ==
    /\ Len(reply.sent) = 1
    /\ Len(reply.issued) = 1
    /\ reply.issued[1].op = "ModifyNetworkInterfaceAttribute"
    /\ KeepsOrder(reply.sent[1])
    /\ Range(reply.sent[1]) = Range(request.existing) \ Range(request.groups)

\* C24 as stated: DetachSecurityGroupsFromNetworkInterface issues one modify call
\* whose group list is the interface's current list without the given groups, in
\* their order, also when the interface holds none of the given groups.
C24_AlwaysOneCall == GroupsDetached => OneCallWithRemaining

\* C24, amended: when the current group list of the interface can be read,
\* DetachSecurityGroupsFromNetworkInterface issues one modify call whose group
\* list is that list without the given groups, the remaining groups in their
\* order, also when the interface holds none of the given groups; when the list
\* cannot be read it issues no call and returns the error.
C24_DetachIsSubtraction ==
    GroupsDetached =>
        IF request.fail = "DescribeNetworkInterfaceAttribute"
          THEN reply.sent = <<>> /\ reply.issued = <<>> /\ reply.err # NoError
          ELSE OneCallWithRemaining

\* One group is taken off an interface that holds three.
C24_Witness ==
    /\ GroupsDetached
    /\ request.existing = <<"sg-3", "sg-1", "sg-2">>
    /\ request.groups = <<"sg-1">>
    /\ reply.sent = << <<"sg-3", "sg-2">> >>
    /\ reply.groups = <<"sg-3", "sg-2">>
    /\ reply.err = NoError

\* UpdateResourceTags has returned.
TagsUpdated == Answered /\ request.op = "UpdateResourceTags"

\* The EC2 calls UpdateResourceTags issued.
IssuedOps == {reply.issued[i].op : i \in 1..Len(reply.issued)}

\* The create-tags call was issued and failed.
CreateFailed == [op |-> "CreateTags", ok |-> FALSE] \in Range(reply.issued)

\* C25 as stated: UpdateResourceTags issues a create-tags call exactly when the
\* create set is not empty and a delete-tags call exactly when the remove set is
\* not empty, each whatever becomes of the other, and no call when both are empty.
C25_TagCallsIndependent ==
    TagsUpdated =>
        /\ "CreateTags" \in IssuedOps <=> HasTags(request.create)
        /\ "DeleteTags" \in IssuedOps <=> HasTags(request.remove)
        /\ ~HasTags(request.create) /\ ~HasTags(request.remove) => reply.issued = <<>>

\* C25: UpdateResourceTags issues a create-tags call exactly when the create set
\* is not empty, and a delete-tags call exactly when the remove set is not empty
\* and no create-tags call has failed; it issues each call at most once, the
\* create-tags call first, and no call at all when both sets are empty.
C25_TagCalls ==
    TagsUpdated =>
        /\ "CreateTags" \in IssuedOps <=> HasTags(request.create)
        /\ "DeleteTags" \in IssuedOps <=> HasTags(request.remove) /\ ~CreateFailed
        /\ IssuedOps \subseteq {"CreateTags", "DeleteTags"}
        /\ Len(reply.issued) = Cardinality(IssuedOps)
        /\ Len(reply.issued) = 2 => reply.issued[1].op = "CreateTags"
        /\ ~HasTags(request.create) /\ ~HasTags(request.remove) => reply.issued = <<>>

C25_Witness ==
    /\ TagsUpdated
    /\ ~HasTags(request.create)
    /\ HasTags(request.remove)
    /\ reply.issued = << [op |-> "DeleteTags", ok |-> TRUE] >>
    /\ reply.err = NoError

----------------------------------------------------------------------------
(* What the properties below say about one call of runInstance.            *)

\* runInstance has sent a request to RunInstances.
RequestSent == Answered /\ ~reply.input.nil

\* The market options of the request sent.
MarketOptions == reply.input.instanceMarketOptions

\* C26: the request of an instance with spot options carries market options of
\* type spot with interruption behaviour terminate and spot instance type
\* one-time, whatever the max price is; a max price that is not empty is passed on
\* unchanged and a nil or empty one sets no max price; the request of an instance
\* without spot options carries no market options.
C26_SpotTranslation ==
    RequestSent =>
        IF request.i.spotMarketOptions.nil
          THEN MarketOptions = NoMarketOptions
          ELSE /\ ~MarketOptions.nil
               /\ MarketOptions.marketType = "spot"
               /\ MarketOptions.spotOptions.instanceInterruptionBehavior = "terminate"
               /\ MarketOptions.spotOptions.spotInstanceType = "one-time"
               /\ MarketOptions.spotOptions.maxPrice =
                     IF request.i.spotMarketOptions.maxPrice \in {Nil, ""}
                       THEN Nil
                       ELSE request.i.spotMarketOptions.maxPrice

C26_Witness ==
    /\ RequestSent
    /\ ~request.i.spotMarketOptions.nil
    /\ request.i.spotMarketOptions.maxPrice = "0.05"
    /\ MarketOptions.spotOptions =
          [instanceInterruptionBehavior |-> "terminate", spotInstanceType |-> "one-time",
           maxPrice |-> "0.05"]
    /\ reply.err = NoError

\* runInstance has returned for an instance with a root volume whose image EC2
\* could describe.
RootVolumeChecked ==
    /\ Answered
    /\ ~request.i.rootVolume.nil
    /\ request.fail \notin {"getImageRootDevice", "getImageSnapshotSize", "NoImages"}

\* The error of the guard on the size of the root volume.
TooSmall == <<"root volume size must be greater than or equal to snapshot size">>

\* C27: runInstance for a root volume smaller than the snapshot of the image
\* returns an error and no instance without having called RunInstances; a root
\* volume at least as large as the snapshot passes the guard, and the size it asks
\* for is the size of the root device in the request sent.
C27_RootVolumeGuard ==
    RootVolumeChecked =>
        IF request.i.rootVolume.size < Image.snapshotSize
          THEN /\ reply.err = TooSmall
               /\ reply.instance = NilInstance
               /\ reply.input = NoInput
               /\ "RunInstances" \notin Range(reply.calls)
          ELSE /\ reply.err # TooSmall
               /\ \A vi \in 1..Len(request.i.nonRootVolumes) :
                     request.i.nonRootVolumes[vi].deviceName # ""
                  => /\ "RunInstances" \in Range(reply.calls)
                     /\ reply.input.blockDeviceMappings[1].ebs.volumeSize =
                           request.i.rootVolume.size

C27_Witness ==
    /\ RootVolumeChecked
    /\ request.i.rootVolume.size = 10
    /\ Image.snapshotSize = 20
    /\ request.fail = "none"
    /\ reply.err = TooSmall
    /\ reply.calls = <<"DescribeImages", "DescribeImages">>

\* The lookup by tags has answered.
FoundByTags == request.op = "tags" /\ Answered

\* The reservations of the answer that hold an instance.
Populated == SelectSeq(request.reservations, LAMBDA r : Len(r) > 0)

\* C28: GetRunningInstanceByTags queries by the VPC, the cluster-ownership tag, the
\* name tag and the states pending and running.  When the call succeeds it returns
\* the first instance of the first reservation that has one, and a nil instance
\* with no error when no reservation has one; when EC2 answers not found it
\* returns a nil instance and no error; on any other failure it returns a nil
\* instance and the error wrapped.
C28_FindExisting ==
    FoundByTags =>
        /\ reply.query = << VPC(ClusterVPC), ClusterOwned(ClusterName), Name(MachineName),
                            InstanceStates(<<"pending", "running">>) >>
        /\ (request.err = NoError /\ Populated # <<>>) =>
               /\ reply.err = NoError
               /\ ~reply.instance.nil
               /\ reply.instance.id = Populated[1][1].instanceId
               /\ reply.instance.state = Populated[1][1].state
        /\ (request.err = NoError /\ Populated = <<>>) =>
               reply.instance = NilInstance /\ reply.err = NoError
        /\ request.err = <<"NotFound">> =>
               reply.instance = NilInstance /\ reply.err = NoError
        /\ request.err \notin {NoError, <<"NotFound">>} =>
               /\ reply.instance = NilInstance
               /\ Len(reply.err) = Len(request.err) + 1
               /\ Cause(reply.err) = Cause(request.err)

\* Several instances match, the first reservation is empty, and the first instance
\* of the second reservation is returned.
C28_Witness ==
    /\ FoundByTags
    /\ request.err = NoError
    /\ Len(request.reservations) = 2
    /\ request.reservations[1] = <<>>
    /\ Len(request.reservations[2]) = 1
    /\ reply.instance.id = "i-3"
    /\ reply.err = NoError

\* The network interfaces of the template and of the request sent.
TemplateInterfaces == request.i.networkInterfaces

SentInterfaces == reply.input.networkInterfaces

\* C29: the request sent to RunInstances carries either the network interfaces of
\* the template, each with the device index of its position in the list, counted
\* from zero, or the subnet id and the security group ids of the instance, and
\* never both: when the template lists a network interface the request has no
\* subnet id and no security group ids, and otherwise it has no network interface.
C29_InterfacesOrSubnet ==
    RequestSent =>
        /\ Len(SentInterfaces) = Len(TemplateInterfaces)
        /\ \A k \in 1..Len(SentInterfaces) :
               /\ SentInterfaces[k].deviceIndex = k - 1
               /\ SentInterfaces[k].networkInterfaceId = TemplateInterfaces[k]
        /\ Len(TemplateInterfaces) > 0 =>
               reply.input.subnetId = Nil /\ reply.input.securityGroupIds = <<>>
        /\ Len(TemplateInterfaces) = 0 =>
               /\ reply.input.subnetId = request.i.subnetID
               /\ reply.input.securityGroupIds = request.i.securityGroupIDs

\* A request for a template with two network interfaces and two security groups.
C29_Witness ==
    /\ RequestSent
    /\ Len(TemplateInterfaces) = 2
    /\ request.i.securityGroupIDs = <<"sg-1", "sg-2">>
    /\ SentInterfaces[2] = [networkInterfaceId |-> "eni-1", deviceIndex |-> 1]
    /\ reply.input.subnetId = Nil
    /\ reply.input.securityGroupIds = <<>>

\* RunInstances returned an instance and the wait for the running state failed or
\* timed out.
WaitFailed ==
    /\ Answered
    /\ request.fail = "WaitUntilInstanceRunning"
    /\ \E k \in 1..Len(reply.calls) : reply.calls[k] = "RunInstances"

\* C30: when RunInstances succeeded and the bounded wait for the running state
\* fails or times out, runInstance only logs it: it returns the instance EC2
\* created, converted, and no error.
C30_WaitNotFatal ==
    WaitFailed =>
        /\ reply.err = NoError
        /\ ~reply.instance.nil
        /\ reply.instance = SDKToInstance(Reserved(reply.input))
        /\ reply.calls[Len(reply.calls)] = "WaitUntilInstanceRunning"
        /\ reply.logged # <<>>

\* The wait failed after the instance i-1 was created, and i-1 is returned.
C30_Witness ==
    /\ WaitFailed
    /\ reply.instance.id = "i-1"
    /\ reply.instance.state = "pending"
    /\ reply.err = NoError
    /\ reply.logged = <<"Could not determine if Machine is running">>

\* TerminateInstanceAndWait has returned.
TerminateReturned == request.op = "terminateAndWait" /\ Answered

\* C31: TerminateInstanceAndWait issues the terminate call first and waits for the
\* terminated state only when that call succeeded: a failed terminate call returns
\* its error wrapped and no wait is made, a failed wait returns its error wrapped,
\* and no error is returned only after the wait saw the instance terminated.
C31_TerminateThenWait ==
    TerminateReturned =>
        /\ reply.calls[1] = "TerminateInstances"
        /\ request.terminate # "none" =>
               /\ reply.calls = <<"TerminateInstances">>
               /\ Len(reply.err) = 2
               /\ Cause(reply.err) = request.terminate
        /\ request.terminate = "none" =>
               reply.calls = <<"TerminateInstances", "WaitUntilInstanceTerminated">>
        /\ (request.terminate = "none" /\ request.wait # "none") =>
               /\ Len(reply.err) = 2
               /\ Cause(reply.err) = request.wait
        /\ reply.err = NoError =>
               /\ reply.state = "terminated"
               /\ reply.calls[Len(reply.calls)] = "WaitUntilInstanceTerminated"

\* The terminate call was accepted and the wait timed out.
C31_Witness ==
    /\ TerminateReturned
    /\ request.terminate = "none"
    /\ request.wait = "ResourceNotReady"
    /\ reply.calls = <<"TerminateInstances", "WaitUntilInstanceTerminated">>
    /\ reply.err = <<"failed to wait for instance termination", "ResourceNotReady">>
    /\ reply.state = "shutting-down"

\* CreateInstance has returned.
Created == Answered

\* The reasons of the events that report a failure.
FailureReasons == {"FailedCreate", "FailedCreateInstance"}

\* C32: a call of CreateInstance that fails with FailedDependency records no
\* failure event.
C32_NoEventOnFailedDependency ==
    (Created /\ IsFailedDependency(reply.err)) =>
        \A k \in 1..Len(reply.events) : reply.events[k].reason \notin FailureReasons

\* The image is looked up: the machine names no image id but a version.
ImageLookedUp == Created /\ request.scope.amiID = Nil /\ request.scope.version # Nil

\* The lookup values the machine and its cluster ask for: each is the value of
\* the machine when that is not empty, else the value of the cluster.
ExpectedFormat ==
    IF request.scope.imageLookupFormat # "" THEN request.scope.imageLookupFormat
    ELSE request.scope.clusterImageLookupFormat

ExpectedOrg ==
    IF request.scope.imageLookupOrg # "" THEN request.scope.imageLookupOrg
    ELSE request.scope.clusterImageLookupOrg

ExpectedBaseOS ==
    IF request.scope.imageLookupBaseOS # "" THEN request.scope.imageLookupBaseOS
    ELSE request.scope.clusterImageLookupBaseOS

ExpectedKey ==
    [path |-> "default", format |-> ExpectedFormat, org |-> ExpectedOrg,
     baseOS |-> ExpectedBaseOS, version |-> request.scope.version]

\* C33 as stated: an image id is used as it is and no lookup is made; otherwise
\* the lookup is the managed one whenever the cluster is EKS-managed, and else the
\* default one with the version and the three lookup values.
C33_ManagedLookupWhenever ==
    /\ (Created /\ request.scope.amiID # Nil) => reply.lookup = NoLookup
    /\ ImageLookedUp =>
           IF request.scope.eks THEN reply.lookup.path = "eks"
           ELSE reply.lookup = ExpectedKey

\* C33: an image id is used as it is and no lookup is made.  Without an image id
\* and without a version CreateInstance fails and makes no lookup.  Otherwise the
\* lookup is the managed one, by version, only when the cluster is EKS-managed
\* and the three lookup values are all empty, and else the default one with the
\* version and the three lookup values, each taken from the machine when not
\* empty and else from the cluster.
C33_ImageResolution ==
    /\ (Created /\ request.scope.amiID # Nil) =>
           /\ reply.lookup = NoLookup
           /\ ~reply.input.nil => reply.input.imageID = request.scope.amiID
    /\ (Created /\ request.scope.amiID = Nil /\ request.scope.version = Nil) =>
           /\ reply.lookup = NoLookup
           /\ reply.err # NoError
           /\ reply.input.nil
    /\ ImageLookedUp =>
           IF /\ request.scope.eks
              /\ ExpectedFormat = "" /\ ExpectedOrg = "" /\ ExpectedBaseOS = ""
             THEN reply.lookup = [path |-> "eks", version |-> request.scope.version]
             ELSE reply.lookup = ExpectedKey

\* A machine of an EKS-managed cluster with an organization of its own: the
\* default lookup is made, the format and the base OS being the cluster's.
C33_Witness ==
    /\ ImageLookedUp
    /\ request.scope.eks
    /\ request.scope.imageLookupOrg = "org-m"
    /\ request.scope.clusterImageLookupOrg = "org-c"
    /\ reply.lookup = [path |-> "default", format |-> "fmt-c", org |-> "org-m",
                       baseOS |-> "os-c", version |-> "v1.20.1"]
    /\ reply.err = NoError

\* The key names of the machine and of the cluster, and the key name of the
\* infrav1.Instance handed to runInstance.
MachineKey == request.scope.sshKeyName

ClusterKey == request.scope.clusterSSHKeyName

\* The key name chosen: the machine's when it is not nil, else the cluster's when
\* it is not nil, else the default one, and none for an externally managed
\* cluster.
ChosenKey ==
    IF MachineKey # Nil THEN MachineKey
    ELSE IF ClusterKey # Nil THEN ClusterKey
    ELSE IF request.scope.external THEN "" ELSE defaultSSHKeyName

\* CreateInstance sent a request to RunInstances.
CreateRequested ==
    Created /\ \E k \in 1..Len(reply.calls) : reply.calls[k] = "RunInstances"

\* C35: the request sent to RunInstances carries the key name chosen when that is
\* not the empty string, and no key name at all when it is; a nil key name of the
\* machine leaves the key name of the cluster in force.
C35_SSHKeyName ==
    CreateRequested =>
        /\ reply.input.sshKeyName = (IF ChosenKey = "" THEN Nil ELSE ChosenKey)
        /\ (MachineKey = Nil /\ ClusterKey \notin {Nil, ""}) =>
               reply.input.sshKeyName = ClusterKey
        /\ (reply.ran.nil = FALSE) => reply.ran.sshKeyName = reply.input.sshKeyName

\* The machine names no key and the cluster names the empty one: the request
\* carries no key name.
C35_Witness ==
    /\ CreateRequested
    /\ MachineKey = Nil
    /\ ClusterKey = ""
    /\ ~request.scope.external
    /\ reply.input.sshKeyName = Nil
    /\ reply.err = NoError

\* RunInstances created an instance during the call of CreateInstance.
InstanceCreated == Created /\ ~reply.ran.nil

\* C37: when CreateInstance returns an error, RunInstances created no instance
\* during that call.
C37_ErrorMeansNoInstance ==
    (Created /\ reply.err # NoError) => ~InstanceCreated

\* ValidateUpdate has judged an update of the stored object.
Judged == reply # NoReply

\* C34: an update ValidateUpdate accepted, once stored, leaves the region as it
\* was, and leaves a control plane endpoint that was not zero, a VPC id that was
\* not empty and a load balancer scheme that was set as they were; and an update
\* that only sets the endpoint of an object that had none is accepted.
C34_ImmutableFields ==
    /\ [][request' # request =>
            /\ request'.region = request.region
            /\ request.controlPlaneEndpoint # ZeroEndpoint =>
                   request'.controlPlaneEndpoint = request.controlPlaneEndpoint
            /\ request.networkSpec.vpc.id # "" =>
                   request'.networkSpec.vpc.id = request.networkSpec.vpc.id
            /\ SchemeOf(request.loadBalancer) # Nil =>
                   SchemeOf(request'.loadBalancer) = SchemeOf(request.loadBalancer)]_vars
    /\ []((/\ Judged
           /\ request.controlPlaneEndpoint = ZeroEndpoint
           /\ reply.r = [request EXCEPT !.controlPlaneEndpoint = reply.r.controlPlaneEndpoint])
          => ~reply.panic /\ reply.allErrs = <<>>)

\* An update that sets the endpoint of an object with a VPC id and an internal
\* load balancer, and changes nothing else, was accepted.
C34_Witness ==
    /\ Judged
    /\ ~reply.panic
    /\ reply.allErrs = <<>>
    /\ request.controlPlaneEndpoint = ZeroEndpoint
    /\ reply.r.controlPlaneEndpoint = [host |-> "elb-1.example", port |-> 6443]
    /\ request.networkSpec.vpc.id = "vpc-1"
    /\ reply.r.networkSpec = request.networkSpec
    /\ SchemeOf(request.loadBalancer) = "internal"
    /\ reply.r.loadBalancer = request.loadBalancer

\* The object was ready when the reconciliation of the step just taken began, and
\* the reconciliation took the create path.
ReadyBefore == CreatePath /\ seen.ready

\* C38: the ready flag of the stored object, once true, stays true while the
\* object exists.  A create-path reconciliation of a ready object that fails in a
\* converger returns the error, marks the converger's condition False and leaves
\* ready true; one that waits for the DNS name marks the load balancer's condition
\* False, asks for a requeue and leaves ready true.
C38_ReadyNeverReset ==
    /\ [][(awsCluster.exists /\ awsCluster.ready /\ awsCluster'.exists) =>
             awsCluster'.ready]_vars
    /\ [](ReadyBefore =>
            /\ mem.ready
            /\ ConvergerFailed =>
                  /\ result.err # NoError
                  /\ mem.conditions[ConditionOf(FailedCall.op)].status = "False"
                  /\ mem.conditions[ConditionOf(FailedCall.op)].message = ErrorOf(FailedCall)
            /\ WaitingForDNS =>
                  /\ result.requeueAfter = RequeueDelay
                  /\ mem.conditions["LoadBalancerReadyCondition"].status = "False")

\* A ready object whose load balancer converger fails in a later reconciliation:
\* the condition is False, the error is returned, and the object stays ready.
C38_Witness ==
    /\ ReadyBefore
    /\ ConvergerFailed
    /\ FailedCall.op = "ReconcileLoadbalancers"
    /\ mem.conditions["LoadBalancerReadyCondition"].status = "False"
    /\ result.err # NoError
    /\ mem.ready
    /\ awsCluster.ready

\* C39: no group list that UpdateInstanceSecurityGroups sends for a network
\* interface names the same group id twice, the interfaces' existing lists having
\* no duplicates.
C39_NoDuplicateSent ==
    GroupsUpdated =>
        \A k \in 1..Len(reply.sent) :
            LET sent == reply.sent[k].groups
            IN  \A i, j \in 1..Len(sent) : sent[i] = sent[j] => i = j

\* The mapping function has returned.
Mapped == Answered

\* C40: the mapping enqueues at most one request, and only for a Cluster without
\* a deletion marker whose infrastructure reference is an AWSCluster that exists
\* and is not externally managed; the request names the namespace and name of the
\* object that was looked up.
C40_RequestForLookedUp ==
    Mapped =>
        /\ Len(reply.requests) <= 1
        /\ reply.requests # <<>> =>
              /\ ~request.c.deletionTimestamp
              /\ request.c.infrastructureRef.kind = "AWSCluster"
              /\ request.fail = "none"
              /\ Len(reply.gets) = 1
              /\ request.store[reply.gets[1]] = "managed"
              /\ reply.requests[1] = reply.gets[1]

====
